---- MODULE Spec2Model ----
(***************************************************************************)
(* Model of matrix_sdk_base::client::BaseClient, the no-IO client state    *)
(* machine (src/matrix_sdk_base/src/client.rs).                            *)
(*                                                                         *)
(* The client's fields are the variables.  One caller task drives the      *)
(* public operations one after the other; receive_sync_response (the fold) *)
(* is cut into one action per critical section, so that every state a      *)
(* concurrent reader can observe between two lock acquisitions of the fold *)
(* is a state of the model.  The skeleton of a sync response (next_batch,  *)
(* the room ids of rooms.join / rooms.invite / rooms.leave, the presence   *)
(* list) is drawn when the call starts; the events of each room section    *)
(* are drawn when the fold's loop reaches them.                            *)
(*                                                                         *)
(* Room (crate::models::Room), the OlmMachine, the StateStore and the      *)
(* EventEmitter are not part of client.rs: they are modelled from their    *)
(* interface contracts.                                                    *)
(***************************************************************************)
EXTENDS Naturals, Sequences, FiniteSets, TLC

VARIABLES
    \* ---- BaseClient fields (client.rs 94-123)
    session,                \* Option<Session>
    sync_token,             \* Option<Token>
    joined_rooms,           \* HashMap<RoomId, Arc<RwLock<Room>>>
    invited_rooms,
    left_rooms,
    ignored_users,          \* Vec<UserId>
    push_ruleset,           \* Option<Ruleset>
    event_emitter,          \* Option<Box<dyn EventEmitter>>
    state_store,            \* Option<Box<dyn StateStore>>: is a store configured
    needs_state_store_sync, \* AtomicBool
    olm,                    \* Option<OlmMachine> (feature "encryption")
    encryption,             \* is the "encryption" feature compiled in
    \* ---- the task running receive_sync_response
    pc,                     \* where the caller task stands
    resp,                   \* the response being folded (skeleton)
    sec,                    \* section being folded: "joined" | "invited" | "left"
    todo,                   \* room ids of the section still to fold
    room_id,                \* room entry being folded
    events,                 \* state events of the entry read so far
    idx,                    \* loop index (emit loop, presence loop, section length)
    event,                  \* the timeline / account-data slot being handled
    decrypted_event,        \* result of decrypt_room_event (NoEvent: None)
    updated,                \* the iter_*_rooms local `updated`
    ret,                    \* where get_or_create_*_room returns to
    goc,                    \* evictions still to do in get_or_create_*_room
    cb,                     \* what the running callback does with the client
    cb_ret,                 \* where the emit returns to
    held,                   \* locks the fold task holds at this point
    cb_held,                \* locks the callback holds at this point
    peak,                   \* locks the task held together during the last step
    out,                    \* the call to a collaborator made by the last step
    result,                 \* how the last public operation ended
    nfolds,                 \* number of receive_sync_response calls so far
    pc2                     \* a second, concurrent receive_sync_response call

client_vars == <<session, sync_token, joined_rooms, invited_rooms, left_rooms,
                 ignored_users, push_ruleset, event_emitter, state_store,
                 needs_state_store_sync, olm, encryption>>
task_vars == <<pc, resp, sec, todo, room_id, events, idx, event, decrypted_event,
               updated, ret, goc, cb, cb_ret, held, cb_held, peak, out, result, nfolds, pc2>>
vars == <<client_vars, task_vars>>

\* groups of variables an action leaves alone
rooms_vars == <<joined_rooms, invited_rooms, left_rooms>>
fixed_vars == <<session, state_store, needs_state_store_sync, olm, encryption>>
data_vars == <<sync_token, ignored_users, push_ruleset>>
call_vars == <<resp, sec, todo, room_id, nfolds, pc2>>
goc_vars == <<ret, goc>>
cb_vars == <<cb, cb_ret, held, cb_held>>

----------------------------------------------------------------------------
(* Bounds *)

\* receive_sync_response calls in one behaviour
MaxFolds == 2
\* events drawn for one section of one room entry
MaxEvents == 2

----------------------------------------------------------------------------
(* Identifiers and events (external schema, small universes) *)

RoomIds == {"r1"}
\* rooms.join / invite / leave are BTreeMaps: iteration is in key order
RoomOrder == <<"r1", "r2">>
Users == {"u1", "u2"}
Tokens == {"t1", "t2"}
None == "None"

\* Option<T>: None is the empty tuple, Some(x) the one-element tuple
NoneOpt == << >>
Some(x) == <<x>>
IsSome(o) == o # << >>
Unwrap(o) == o[1]

NoEvent == [type |-> "none"]
Member(u) == [type |-> "m.room.member", user |-> u]
RoomEncryption == [type |-> "m.room.encryption"]
Message == [type |-> "m.room.message"]
\* an EventJson whose deserialize() fails
Undeserializable == [type |-> "undeserializable"]
\* an m.room.encrypted envelope: its plaintext, and whether the engine has the keys
Encrypted(p, k) == [type |-> "m.room.encrypted", payload |-> p, known |-> k]
Presence(u) == [type |-> "m.presence", user |-> u]
IgnoredUserList(l) == [type |-> "m.ignored_user_list", ignored_users |-> l]
PushRules(rs) == [type |-> "m.push_rules", global |-> rs]
FullyRead == [type |-> "m.fully_read"]
Typing == [type |-> "m.typing"]

IgnoredLists == {<<"u1", "u2">>, <<"u2", "u1">>}
Rulesets == {"rs1"}

StateEvents == {Member("u1"), RoomEncryption, Undeserializable}
StrippedEvents == {Member("u1"), Undeserializable}
TimelineEvents == {Member("u1"), Message, Undeserializable,
                   Encrypted(Message, TRUE), Encrypted(Member("u1"), TRUE),
                   Encrypted(Message, FALSE)}
AccountDataEvents == {IgnoredUserList(l) : l \in IgnoredLists}
                     \cup {PushRules(rs) : rs \in Rulesets}
                     \cup {FullyRead, Undeserializable}
EphemeralEvents == {Typing, Presence("u1")}
\* response.presence.events: every response carries u1's presence
PresenceLists == {<<Presence("u1")>>}

Sessions == {[user_id |-> "u1", device_id |-> "d1", access_token |-> "a1"]}

Responses == [next_batch : Tokens, join : SUBSET RoomIds, invite : SUBSET RoomIds,
              leave : SUBSET RoomIds, presence : PresenceLists]

NoResponse == [next_batch |-> None, join |-> {}, invite |-> {}, leave |-> {},
               presence |-> << >>]

\* what is left of a response once the call has returned: the caller knows
\* which batch it handed in, the body has been consumed
Returned(r) == [NoResponse EXCEPT !.next_batch = r.next_batch]

\* a deserialize() that never fails
DeserializesAlways(e) == TRUE

\* EventJson::deserialize() succeeded
Deserializes(e) == e.type # "undeserializable"

\* the room ids of a section in iteration order
InOrder(S) == SelectSeq(RoomOrder, LAMBDA r : r \in S)

----------------------------------------------------------------------------
(* Room: crate::models::Room, modelled from its contract (spec 4.1) *)

NewRoom(r, u) ==
    [room_id |-> r, own_user_id |-> u, members |-> {}, presence |-> {},
     encrypted |-> FALSE, summary |-> None, unread |-> None]

\* Room::receive_state_event: the Room after the event
RoomReceiveStateEvent(room, e) ==
    CASE e.type = "m.room.member" ->
            [room EXCEPT !.members = @ \cup {e.user}]
      [] e.type = "m.room.encryption" -> [room EXCEPT !.encrypted = TRUE]
      [] OTHER -> room

\* Room::receive_stripped_state_event
RoomReceiveStrippedStateEvent(room, e) ==
    CASE e.type = "m.room.member" ->
            [room EXCEPT !.members = @ \cup {e.user}]
      [] OTHER -> room

\* Room::receive_timeline_event: state-changing timeline events only; a
\* message or an m.room.encrypted envelope leaves the Room as it is
RoomReceiveTimelineEvent(room, e) ==
    CASE e.type = "m.room.member" ->
            [room EXCEPT !.members = @ \cup {e.user}]
      [] e.type = "m.room.encryption" -> [room EXCEPT !.encrypted = TRUE]
      [] OTHER -> room

\* Room::receive_presence_event: updates the presence fields of a known member
RoomReceivePresenceEvent(room, e) ==
    IF e.user \in room.members
    THEN [room EXCEPT !.presence = @ \cup {e.user}]
    ELSE room

SetRoomSummary(room) == [room EXCEPT !.summary = "summary"]
SetUnreadNoticeCount(room) == [room EXCEPT !.unread = "counts"]
IsEncrypted(room) == room.encrypted

\* OlmMachine::new(user_id, device_id)
OlmMachineNew(u, d) == [user_id |-> u, device_id |-> d]
\* OlmMachine::decrypt_room_event(e).ok(): the plaintext when the keys are known
DecryptRoomEvent(e) == IF e.known THEN e.payload ELSE NoEvent

----------------------------------------------------------------------------
(* Locks: every field sits behind its own async RwLock (olm: a Mutex) *)

Lock(name, mode) == [lock |-> name, bucket |-> "", room |-> "", mode |-> mode]
BucketLock(b, mode) == [lock |-> "rooms", bucket |-> b, room |-> "", mode |-> mode]
\* the RwLock of the Room found under room id r in bucket b
RoomLock(b, r, mode) == [lock |-> "room", bucket |-> b, room |-> r, mode |-> mode]

SameLock(a, b) == a.lock = b.lock /\ a.bucket = b.bucket /\ a.room = b.room
\* would acquiring l have to wait for a lock of H
Blocked(l, H) ==
    \E h \in H : SameLock(l, h) /\ (l.mode = "write" \/ h.mode = "write")

----------------------------------------------------------------------------
(* The three room maps *)

Buckets == {"joined", "invited", "left"}

Bucket(b) ==
    CASE b = "joined" -> joined_rooms
      [] b = "invited" -> invited_rooms
      [] b = "left" -> left_rooms

SetBucket(b, f) ==
    /\ joined_rooms' = IF b = "joined" THEN f ELSE joined_rooms
    /\ invited_rooms' = IF b = "invited" THEN f ELSE invited_rooms
    /\ left_rooms' = IF b = "left" THEN f ELSE left_rooms

\* HashMap::remove
MapRemove(f, r) == [x \in (DOMAIN f) \ {r} |-> f[x]]
\* HashMap::insert(r, room): the entry is overwritten
MapInsert(f, r, room) ==
    [x \in (DOMAIN f) \cup {r} |-> IF x = r THEN room ELSE f[x]]

\* HashMap::entry(r).or_insert(room)
MapOrInsert(f, r, room) ==
    IF r \in DOMAIN f THEN f ELSE [x \in (DOMAIN f) \cup {r} |-> IF x = r THEN room ELSE f[x]]
EmptyMap == [x \in {} |-> NewRoom("", "")]

\* the Room under r in bucket b, changed to room
UpdateRoom(b, r, room) == SetBucket(b, [Bucket(b) EXCEPT ![r] = room])

----------------------------------------------------------------------------
(* Calls to the collaborators, recorded in out *)

Call(op, name, b, r, e) ==
    [op |-> op, name |-> name, bucket |-> b, room_id |-> r, event |-> e]
NoCall == Call("none", "", "", "", NoEvent)
\* a call that carries user ids (update_tracked_users)
CallWith(op, name, b, r, users) ==
    [op |-> op, name |-> name, bucket |-> b, room_id |-> r, event |-> NoEvent,
     users |-> users]

----------------------------------------------------------------------------
(* BaseClient::new / new_with_state_store (client.rs 145-186) *)

\* the second call before it has started
Task2Idle == [at |-> "idle", next_batch |-> None]

Init ==
    /\ session \in {NoneOpt} \cup {Some(s) : s \in Sessions}
    /\ sync_token = None
    /\ joined_rooms = EmptyMap
    /\ invited_rooms = EmptyMap
    /\ left_rooms = EmptyMap
    /\ ignored_users = << >>
    /\ push_ruleset = None
    /\ event_emitter = None
    /\ state_store \in BOOLEAN
    /\ needs_state_store_sync = TRUE
    /\ encryption \in BOOLEAN
    /\ olm = IF encryption /\ IsSome(session)
             THEN Some(OlmMachineNew(Unwrap(session).user_id, Unwrap(session).device_id))
             ELSE NoneOpt
    /\ pc = "idle"
    /\ resp = NoResponse
    /\ sec = "joined"
    /\ todo = << >>
    /\ room_id = ""
    /\ events = << >>
    /\ idx = 0
    /\ event = NoEvent
    /\ decrypted_event = NoEvent
    /\ updated = FALSE
    /\ ret = ""
    /\ goc = << >>
    /\ cb = "nothing"
    /\ cb_ret = ""
    /\ held = {}
    /\ cb_held = {}
    /\ peak = {}
    /\ out = NoCall
    /\ result = "none"
    /\ nfolds = 0
    /\ pc2 = Task2Idle

----------------------------------------------------------------------------
(* receive_login_response, add_event_emitter *)

\* a login that keeps the engine the client already has
ReceiveLoginResponseKeepsEngine(s) ==
    /\ pc = "idle"
    /\ session' = Some(s)
    /\ olm' = IF encryption /\ ~IsSome(olm)
              THEN Some(OlmMachineNew(s.user_id, s.device_id))
              ELSE olm
    /\ result' = "ok"
    /\ out' = NoCall
    /\ peak' = {Lock("session", "write")}
    /\ UNCHANGED <<sync_token, joined_rooms, invited_rooms, left_rooms, ignored_users,
                   push_ruleset, event_emitter, state_store, needs_state_store_sync,
                   encryption>>
    /\ UNCHANGED <<pc, resp, sec, todo, room_id, events, idx, event, decrypted_event,
                   updated, ret, goc, cb, cb_ret, held, cb_held, nfolds, pc2>>

\* a login that asks for the store to be synced again
ReceiveLoginResponseNeedsSync(s) ==
    /\ pc = "idle"
    /\ session' = Some(s)
    /\ olm' = IF encryption THEN Some(OlmMachineNew(s.user_id, s.device_id)) ELSE olm
    /\ needs_state_store_sync' = TRUE
    /\ result' = "ok"
    /\ out' = NoCall
    /\ peak' = {Lock("session", "write")}
    /\ UNCHANGED <<sync_token, joined_rooms, invited_rooms, left_rooms, ignored_users,
                   push_ruleset, event_emitter, state_store, encryption>>
    /\ UNCHANGED <<pc, resp, sec, todo, room_id, events, idx, event, decrypted_event,
                   updated, ret, goc, cb, cb_ret, held, cb_held, nfolds, pc2>>

\* client.rs 292-310
ReceiveLoginResponse(s) ==
    /\ pc = "idle"
    /\ session' = Some(s)
    /\ olm' = IF encryption THEN Some(OlmMachineNew(s.user_id, s.device_id)) ELSE olm
    /\ result' = "ok"
    /\ out' = NoCall
    /\ peak' = {Lock("session", "write")}
    /\ UNCHANGED <<sync_token, joined_rooms, invited_rooms, left_rooms, ignored_users,
                   push_ruleset, event_emitter, state_store, needs_state_store_sync,
                   encryption>>
    /\ UNCHANGED <<pc, resp, sec, todo, room_id, events, idx, event, decrypted_event,
                   updated, ret, goc, cb, cb_ret, held, cb_held, nfolds, pc2>>

\* client.rs 204-206
AddEventEmitter ==
    /\ pc = "idle"
    /\ event_emitter' = "emitter"
    /\ result' = "ok"
    /\ out' = NoCall
    /\ peak' = {Lock("event_emitter", "write")}
    /\ UNCHANGED <<session, sync_token, joined_rooms, invited_rooms, left_rooms,
                   ignored_users, push_ruleset, state_store, needs_state_store_sync,
                   olm, encryption>>
    /\ UNCHANGED <<pc, resp, sec, todo, room_id, events, idx, event, decrypted_event,
                   updated, ret, goc, cb, cb_ret, held, cb_held, nfolds, pc2>>

----------------------------------------------------------------------------
(* receive_sync_response (client.rs 648-693) *)

\* a guard that never fires
AlreadyReceivedNever(token, next_batch) == FALSE

\* the check of line 655: this response was already received
AlreadyReceived(token, next_batch) == token = next_batch

\* a fold that keeps the token it had
StoredSyncTokenStale(next_batch) == sync_token

\* a fold that clears the token instead of storing the new one
StoredSyncTokenNone(next_batch) == None

\* the value line 659 stores in sync_token
StoredSyncToken(next_batch) == next_batch

\* the call, up to the idempotence check
ReceiveSyncResponse(r) ==
    /\ pc = "idle"
    /\ nfolds < MaxFolds
    /\ nfolds' = nfolds + 1
    /\ pc2' = pc2
    /\ IF AlreadyReceived(sync_token, r.next_batch)
       THEN pc' = "idle" /\ result' = "ok" /\ resp' = Returned(r)
       ELSE pc' = "write_token" /\ result' = "running" /\ resp' = r
    /\ out' = NoCall
    /\ peak' = {Lock("sync_token", "read")}
    /\ UNCHANGED client_vars
    /\ UNCHANGED <<sec, todo, room_id, events, idx, event, decrypted_event, updated,
                   goc_vars, cb_vars>>

\* line 659
WriteSyncToken ==
    /\ pc = "write_token"
    /\ sync_token' = StoredSyncToken(resp.next_batch)
    /\ pc' = "crypto_sync"
    /\ out' = NoCall
    /\ peak' = {Lock("sync_token", "write")}
    /\ UNCHANGED <<fixed_vars, rooms_vars, ignored_users, push_ruleset, event_emitter>>
    /\ UNCHANGED <<call_vars, events, idx, event, decrypted_event, updated, goc_vars,
                   cb_vars, result>>

\* lines 661-672: the engine sees the response before any room is folded;
\* then iter_joined_rooms starts (line 678, `updated = false` of line 699)
CryptoReceiveSyncResponse ==
    /\ pc = "crypto_sync"
    /\ out' = IF encryption /\ IsSome(olm)
              THEN Call("olm", "receive_sync_response", "", "", NoEvent)
              ELSE NoCall
    /\ peak' = IF encryption THEN {Lock("olm", "mutex")} ELSE {}
    /\ pc' = "rooms"
    /\ sec' = "joined"
    /\ todo' = InOrder(resp.join)
    /\ updated' = FALSE
    /\ UNCHANGED client_vars
    /\ UNCHANGED <<resp, nfolds, pc2, room_id, events, idx, event, decrypted_event,
                   goc_vars, cb_vars, result>>

\* the `for (room_id, room) in ...` of lines 700 / 875 / 828: the next entry
NextRoom ==
    /\ pc = "rooms"
    /\ todo # << >>
    /\ room_id' = Head(todo)
    /\ todo' = Tail(todo)
    /\ pc' = "state"
    /\ out' = NoCall
    /\ peak' = {}
    /\ UNCHANGED client_vars
    /\ UNCHANGED <<resp, nfolds, pc2, sec, events, idx, event, decrypted_event, updated,
                   goc_vars, cb_vars, result>>

\* a fold that goes from the joined rooms straight to the left rooms
NextSectionLeftFirst ==
    /\ pc = "rooms"
    /\ todo = << >>
    /\ sec # "left"
    /\ sec' = IF sec = "joined" THEN "left" ELSE "invited"
    /\ todo' = IF sec = "joined" THEN InOrder(resp.leave) ELSE InOrder(resp.invite)
    /\ updated' = FALSE
    /\ out' = NoCall
    /\ peak' = {}
    /\ UNCHANGED client_vars
    /\ UNCHANGED <<pc, resp, nfolds, pc2, room_id, events, idx, event, decrypted_event,
                   goc_vars, cb_vars, result>>

\* lines 678-680: iter_joined_rooms, then iter_invited_rooms, then
\* iter_left_rooms, each with an `updated` of its own
NextSection ==
    /\ pc = "rooms"
    /\ todo = << >>
    /\ sec # "left"
    /\ sec' = IF sec = "joined" THEN "invited" ELSE "left"
    /\ todo' = IF sec = "joined" THEN InOrder(resp.invite) ELSE InOrder(resp.leave)
    /\ updated' = FALSE
    /\ out' = NoCall
    /\ peak' = {}
    /\ UNCHANGED client_vars
    /\ UNCHANGED <<pc, resp, nfolds, pc2, room_id, events, idx, event, decrypted_event,
                   goc_vars, cb_vars, result>>

\* ClientState::from_base_client(&self), line 688: the persisted subset of
\* the client as it is at the call (spec 3, "Client state")
FromBaseClient ==
    [sync_token |-> sync_token, ignored_users |-> ignored_users,
     push_ruleset |-> push_ruleset]

\* a store call that is handed a default client state
StoreClientStateCallDefault(state) ==
    [op |-> "store", name |-> "store_client_state", bucket |-> "", room_id |-> "",
     event |-> NoEvent,
     state |-> [sync_token |-> None, ignored_users |-> << >>, push_ruleset |-> None]]

\* `store.store_client_state(state)`, line 689
StoreClientStateCall(state) ==
    [op |-> "store", name |-> "store_client_state", bucket |-> "", room_id |-> "",
     event |-> NoEvent, state |-> state]

\* lines 682-692: store the client state; a failed write is the fold's error
StoreClientState ==
    /\ pc = "rooms"
    /\ todo = << >>
    /\ sec = "left"
    /\ \E ok \in BOOLEAN :
          /\ ~state_store => ok
          /\ result' = IF ok THEN "ok" ELSE "err"
    /\ out' = IF state_store
              THEN StoreClientStateCall(FromBaseClient)
              ELSE NoCall
    /\ peak' = IF state_store
               THEN {Lock("state_store", "read"), Lock("sync_token", "read")}
               ELSE {Lock("state_store", "read")}
    /\ pc' = "idle"
    /\ resp' = Returned(resp)
    /\ sec' = "joined"
    /\ updated' = FALSE
    /\ UNCHANGED client_vars
    /\ UNCHANGED <<nfolds, pc2, todo, room_id, events, idx, event, decrypted_event,
                   goc_vars, cb_vars>>

----------------------------------------------------------------------------
(* get_or_create_joined_room / _invited_room / _left_room (client.rs 312-410) *)

\* a joined helper that forgets the left map
EvictionsInvitedOnly(target) ==
    CASE target = "joined" -> <<"invited">>
      [] target = "invited" -> <<"left">>
      [] target = "left" -> <<"invited", "joined">>

\* the maps the helper removes the room id from, in order, before it
\* inserts into its own map (lines 315-316, 354, 392-393)
Evictions(target) ==
    CASE target = "joined" -> <<"invited", "left">>
      [] target = "invited" -> <<"left">>
      [] target = "left" -> <<"invited", "joined">>

\* the helper is entered; it returns to `to`
GetOrCreate(to) ==
    /\ pc' = "get_or_create"
    /\ ret' = to
    /\ goc' = Evictions(sec)

\* one `self.<other>_rooms.write().await.remove(room_id)`
GetOrCreateEvict ==
    /\ pc = "get_or_create"
    /\ goc # << >>
    /\ SetBucket(Head(goc), MapRemove(Bucket(Head(goc)), room_id))
    /\ goc' = Tail(goc)
    /\ out' = NoCall
    /\ peak' = {BucketLock(Head(goc), "write")}
    /\ UNCHANGED <<fixed_vars, data_vars, event_emitter>>
    /\ UNCHANGED <<pc, call_vars, events, idx, event, decrypted_event, updated, ret,
                   cb_vars, result>>

\* `rooms.entry(room_id).or_insert(Arc::new(RwLock::new(Room::new(..))))`:
\* the argument is built before the entry is looked at, so a missing session
\* panics ("Receiving events while not being logged in") in every case
GetOrCreateInsert ==
    /\ pc = "get_or_create"
    /\ goc = << >>
    /\ IF IsSome(session)
       THEN /\ SetBucket(sec, MapOrInsert(Bucket(sec), room_id,
                                         NewRoom(room_id, Unwrap(session).user_id)))
            /\ pc' = ret
            /\ result' = result
       ELSE /\ UNCHANGED rooms_vars
            /\ pc' = "aborted"
            /\ result' = "panic"
    /\ ret' = ""
    /\ out' = NoCall
    /\ peak' = {BucketLock(sec, "write"), Lock("session", "read")}
    /\ UNCHANGED <<fixed_vars, data_vars, event_emitter>>
    /\ UNCHANGED <<call_vars, events, idx, event, decrypted_event, updated, goc,
                   cb_vars>>

----------------------------------------------------------------------------
(* emit_*_event (client.rs 1090-1429) and the subscriber *)

\* the EventEmitter method the emit's `match event` picks; "none": `_ => {}`
CallbackFor(kind, e) ==
    CASE kind = "timeline" /\ e.type = "m.room.member" -> "on_room_member"
      [] kind = "timeline" /\ e.type = "m.room.message" -> "on_room_message"
      [] kind = "state" /\ e.type = "m.room.member" -> "on_state_member"
      [] kind = "stripped" /\ e.type = "m.room.member" -> "on_stripped_state_member"
      [] kind \in {"account", "ephemeral"} /\ e.type = "m.presence" ->
            "on_account_presence"
      [] kind \in {"account", "ephemeral"} /\ e.type = "m.ignored_user_list" ->
            "on_account_ignored_users"
      [] kind \in {"account", "ephemeral"} /\ e.type = "m.push_rules" ->
            "on_account_push_rules"
      [] kind \in {"account", "ephemeral"} /\ e.type = "m.fully_read" ->
            "on_account_data_fully_read"
      [] kind = "presence" /\ e.type = "m.presence" -> "on_presence_event"
      [] OTHER -> "none"

\* a lookup whose read guard of the room map lives on in the caller, as it
\* would if the map were read in the caller's own `if let`
GetRoomGuardKept(b) == {BucketLock(b, "read")}

\* get_joined_room / get_invited_room / get_left_room (lines 340-342, 378-380,
\* 417-419): what the caller still holds of the map once the lookup has
\* returned.  The read guard is a temporary of the function's only
\* expression and is dropped before the function returns.
GetRoomGuard(b) == {}

\* an emit that calls out under the map's read guard and the Room's write lock
EmitHeldWithRoom(b, r) ==
    {Lock("event_emitter", "read"), BucketLock(b, "read"), RoomLock(b, r, "write")}

\* the locks the emit still holds when it awaits the callback: the guard
\* `lock = self.event_emitter.read().await` lives to the end of the function;
\* the read guard of the room map is a temporary of the lookup
EmitHeld(b, r) == {Lock("event_emitter", "read")} \cup GetRoomGuard(b)

\* what a callback may do with the client and the Room handle it was given
CallbackActs == {"nothing", "read_room", "write_room", "add_event_emitter"}

\* the lock a callback's behaviour needs
CallbackNeeds(a, b, r) ==
    CASE a = "read_room" -> {RoomLock(b, r, "read")}
      [] a = "write_room" -> {RoomLock(b, r, "write")}
      [] a = "add_event_emitter" -> {Lock("event_emitter", "write")}
      [] OTHER -> {}

\* emit_<kind>_event(room_id, e, RoomStateType of the section), returning to `to`
EmitEvent(kind, e, to) ==
    LET name == CallbackFor(kind, e) IN
    /\ IF event_emitter # None /\ room_id \in DOMAIN Bucket(sec) /\ name # "none"
       THEN /\ pc' = "callback"
            /\ cb_ret' = to
            /\ held' = EmitHeld(sec, room_id)
            /\ out' = Call("callback", name, sec, room_id, e)
            /\ cb' \in CallbackActs
       ELSE /\ pc' = to
            /\ out' = NoCall
            /\ UNCHANGED <<cb, cb_ret, held>>
    /\ peak' = {Lock("event_emitter", "read"), BucketLock(sec, "read")}
    /\ cb_held' = cb_held

\* the callback runs: it takes the lock it needs, if that lock is free; a
\* callback whose lock the dispatching task holds waits for ever
CallbackRun ==
    /\ pc = "callback"
    /\ \A l \in CallbackNeeds(cb, out.bucket, out.room_id) : ~Blocked(l, held)
    /\ cb_held' = CallbackNeeds(cb, out.bucket, out.room_id)
    /\ event_emitter' = IF cb = "add_event_emitter" THEN "emitter" ELSE event_emitter
    /\ pc' = "callback_return"
    /\ UNCHANGED <<fixed_vars, data_vars, rooms_vars>>
    /\ UNCHANGED <<call_vars, events, idx, event, decrypted_event, updated, goc_vars,
                   cb, cb_ret, held, peak, out, result>>

\* a return from the callback that marks the Room as updated
CallbackReturnMarksUpdated ==
    /\ pc = "callback_return"
    /\ pc' = cb_ret
    /\ cb' = "nothing"
    /\ cb_ret' = ""
    /\ held' = {}
    /\ cb_held' = {}
    /\ out' = NoCall
    /\ peak' = {}
    /\ updated' = TRUE
    /\ UNCHANGED client_vars
    /\ UNCHANGED <<call_vars, events, idx, event, decrypted_event, goc_vars, result>>

\* the callback returns and the emit function with it
CallbackReturn ==
    /\ pc = "callback_return"
    /\ pc' = cb_ret
    /\ cb' = "nothing"
    /\ cb_ret' = ""
    /\ held' = {}
    /\ cb_held' = {}
    /\ out' = NoCall
    /\ peak' = {}
    /\ UNCHANGED client_vars
    /\ UNCHANGED <<call_vars, events, idx, event, decrypted_event, updated, goc_vars,
                   result>>

----------------------------------------------------------------------------
(* iter_joined_rooms / iter_invited_rooms / iter_left_rooms: state events *)

SectionStateEvents == IF sec = "invited" THEN StrippedEvents ELSE StateEvents

\* lines 702-708 / 877-883 / 830-836: receive_<sec>_state_event of the next
\* state event, which starts with get_or_create_<sec>_room
StateReceive ==
    /\ pc = "state"
    /\ Len(events) < MaxEvents
    /\ \E e \in SectionStateEvents :
          /\ events' = Append(events, e)
          /\ IF Deserializes(e)
             THEN event' = e /\ GetOrCreate("state_apply")
             ELSE UNCHANGED <<event, pc, goc_vars>>
    /\ out' = NoCall
    /\ peak' = {}
    /\ UNCHANGED client_vars
    /\ UNCHANGED <<call_vars, idx, decrypted_event, updated, cb_vars, result>>

\* `room.receive_state_event(event)` under the Room's write lock
\* (lines 514-515 / 534-535 / 575-576)
StateApply ==
    /\ pc = "state_apply"
    /\ LET room == Bucket(sec)[room_id]
           new == IF sec = "invited"
                  THEN RoomReceiveStrippedStateEvent(room, event)
                  ELSE RoomReceiveStateEvent(room, event)
       IN /\ UpdateRoom(sec, room_id, new)
          /\ updated' = (updated \/ new # room)
    /\ event' = NoEvent
    /\ pc' = "state"
    /\ out' = NoCall
    /\ peak' = {RoomLock(sec, room_id, "write")}
    /\ UNCHANGED <<fixed_vars, data_vars, event_emitter>>
    /\ UNCHANGED <<call_vars, events, idx, decrypted_event, goc_vars, cb_vars, result>>

\* lines 710 / 885 / 838: the entry's Room is fetched (and created) also
\* when the entry carried no state event
StateDone ==
    /\ pc = "state"
    /\ GetOrCreate(IF sec = "joined" THEN "tracked" ELSE "emit_state")
    /\ idx' = 1
    /\ out' = NoCall
    /\ peak' = {}
    /\ UNCHANGED client_vars
    /\ UNCHANGED <<call_vars, events, event, decrypted_event, updated, cb_vars, result>>

\* an engine that is told the members of every joined room, encrypted or not
UpdateTrackedUsersAlways ==
    /\ pc = "tracked"
    /\ LET room == joined_rooms[room_id] IN
       /\ out' = IF encryption /\ IsSome(olm)
                 THEN CallWith("olm", "update_tracked_users", "joined", room_id,
                               room.members)
                 ELSE NoCall
       /\ peak' = IF encryption /\ IsSome(olm)
                  THEN {Lock("olm", "mutex"), RoomLock("joined", room_id, "read")}
                  ELSE IF encryption THEN {Lock("olm", "mutex")} ELSE {}
    /\ pc' = "summary"
    /\ UNCHANGED client_vars
    /\ UNCHANGED <<call_vars, events, idx, event, decrypted_event, updated, goc_vars,
                   cb_vars, result>>

\* lines 713-725: tell the engine the members of an encrypted room
UpdateTrackedUsers ==
    /\ pc = "tracked"
    /\ LET room == joined_rooms[room_id] IN
       /\ out' = IF encryption /\ IsSome(olm) /\ IsEncrypted(room)
                 THEN CallWith("olm", "update_tracked_users", "joined", room_id,
                               room.members)
                 ELSE NoCall
       /\ peak' = IF encryption /\ IsSome(olm)
                  THEN {Lock("olm", "mutex"), RoomLock("joined", room_id, "read")}
                  ELSE IF encryption THEN {Lock("olm", "mutex")} ELSE {}
    /\ pc' = "summary"
    /\ UNCHANGED client_vars
    /\ UNCHANGED <<call_vars, events, idx, event, decrypted_event, updated, goc_vars,
                   cb_vars, result>>

\* lines 728-737: set_room_summary, then set_unread_notice_count, each under
\* a write lock of its own
SetSummaryAndUnread ==
    /\ pc = "summary"
    /\ UpdateRoom("joined", room_id,
                  SetUnreadNoticeCount(SetRoomSummary(joined_rooms[room_id])))
    /\ pc' = "emit_state"
    /\ out' = NoCall
    /\ peak' = {RoomLock("joined", room_id, "write")}
    /\ UNCHANGED <<fixed_vars, data_vars, event_emitter>>
    /\ UNCHANGED <<call_vars, events, idx, event, decrypted_event, updated, goc_vars,
                   cb_vars, result>>

\* lines 740-745 / 888-893 / 841-846: the second loop over the state events
EmitStateEvent ==
    /\ pc = "emit_state"
    /\ idx <= Len(events)
    /\ idx' = idx + 1
    /\ IF Deserializes(events[idx])
       THEN EmitEvent(IF sec = "invited" THEN "stripped" ELSE "state",
                      events[idx], "emit_state")
       ELSE /\ out' = NoCall
            /\ peak' = {}
            /\ UNCHANGED <<pc, cb_vars>>
    /\ UNCHANGED client_vars
    /\ UNCHANGED <<call_vars, events, event, decrypted_event, updated, goc_vars, result>>

EmitStateDone ==
    /\ pc = "emit_state"
    /\ idx > Len(events)
    /\ pc' = IF sec = "invited" THEN "store_room" ELSE "timeline"
    /\ idx' = 0
    /\ events' = << >>
    /\ out' = NoCall
    /\ peak' = {}
    /\ UNCHANGED client_vars
    /\ UNCHANGED <<call_vars, event, decrypted_event, updated, goc_vars, cb_vars,
                   result>>

----------------------------------------------------------------------------
(* timeline events *)

\* a write-back that leaves the envelope in the response
TimelineSlotKeepsEnvelope(e, d) == e

\* the event receive_joined_timeline_event hands to Room::receive_timeline_event
\* (line 496): `e`, the deserialized event as it came, not the decrypted one
AppliedTimelineEvent(e, d) == e

\* lines 758-760: `if let Some(e) = decrypted_event { *event = e; }`
TimelineSlot(e, d) == IF d # NoEvent THEN d ELSE e

\* is decrypt_room_event called for e (lines 482-492): only by
\* receive_joined_timeline_event, with the feature on and an engine present
DecryptAttempted(e) ==
    sec = "joined" /\ encryption /\ e.type = "m.room.encrypted" /\ IsSome(olm)

\* lines 747-751 / 848-849: receive_joined_timeline_event /
\* receive_left_timeline_event up to their get_or_create_<sec>_room
TimelineReceive ==
    /\ pc = "timeline"
    /\ idx < MaxEvents
    /\ idx' = idx + 1
    /\ \E e \in TimelineEvents :
          /\ IF Deserializes(e)
             THEN /\ event' = e
                  /\ decrypted_event' = IF DecryptAttempted(e)
                                        THEN DecryptRoomEvent(e) ELSE NoEvent
                  /\ out' = IF DecryptAttempted(e)
                            THEN Call("olm", "decrypt_room_event", "joined", room_id, e)
                            ELSE NoCall
                  /\ GetOrCreate("timeline_apply")
             ELSE /\ out' = NoCall
                  /\ decrypted_event' = NoEvent
                  /\ UNCHANGED <<event, pc, goc_vars>>
          /\ peak' = IF sec = "joined" /\ encryption /\ e.type = "m.room.encrypted"
                     THEN {Lock("olm", "mutex")} ELSE {}
    /\ UNCHANGED client_vars
    /\ UNCHANGED <<call_vars, events, updated, cb_vars, result>>

\* lines 495-496 / 556-557, then the write-back of lines 758-760;
\* decrypted_event lives to the end of the loop body
TimelineApply ==
    /\ pc = "timeline_apply"
    /\ LET room == Bucket(sec)[room_id]
           new == RoomReceiveTimelineEvent(
                      room, AppliedTimelineEvent(event, decrypted_event))
       IN /\ UpdateRoom(sec, room_id, new)
          /\ updated' = (updated \/ new # room)
    /\ event' = TimelineSlot(event, decrypted_event)
    /\ pc' = "timeline_emit"
    /\ out' = NoCall
    /\ peak' = {RoomLock(sec, room_id, "write")}
    /\ UNCHANGED <<fixed_vars, data_vars, event_emitter>>
    /\ UNCHANGED <<call_vars, events, idx, decrypted_event, goc_vars, cb_vars, result>>

\* lines 762-765 / 853-856
TimelineEmit ==
    /\ pc = "timeline_emit"
    /\ EmitEvent("timeline", event, "timeline")
    /\ event' = NoEvent
    /\ UNCHANGED client_vars
    /\ UNCHANGED <<call_vars, events, idx, decrypted_event, updated, goc_vars, result>>

\* a room fold that runs the state callbacks after the timeline
TimelineDoneThenStateCallbacks ==
    /\ pc = "timeline"
    /\ pc' = "emit_state"
    /\ idx' = 1
    /\ decrypted_event' = NoEvent
    /\ out' = NoCall
    /\ peak' = {}
    /\ UNCHANGED client_vars
    /\ UNCHANGED <<call_vars, events, event, updated, goc_vars, cb_vars, result>>

TimelineDone ==
    /\ pc = "timeline"
    /\ pc' = IF sec = "joined" THEN "account_data" ELSE "store_room"
    /\ idx' = 0
    /\ decrypted_event' = NoEvent
    /\ out' = NoCall
    /\ peak' = {}
    /\ UNCHANGED client_vars
    /\ UNCHANGED <<call_vars, events, event, updated, goc_vars, cb_vars, result>>

----------------------------------------------------------------------------
(* account data, presence, ephemeral events of a joined room *)

\* a comparison of the two lists as sets
IgnoredUsersEqualAsSets(cached, incoming) ==
    {cached[i] : i \in DOMAIN cached} = {incoming[i] : i \in DOMAIN incoming}

\* the comparison of handle_ignored_users (lines 433-434): two Vec<&UserId>
IgnoredUsersEqual(cached, incoming) == cached = incoming

\* handle_ignored_users (lines 431-441): the list afterwards
HandleIgnoredUsers(cached, incoming) ==
    IF IgnoredUsersEqual(cached, incoming) THEN cached ELSE incoming

\* handle_push_rules (lines 446-457): the ruleset afterwards
HandlePushRules(cached, incoming) == incoming

\* a presence handler that creates the joined room it does not find
ReceivePresenceEventCreates(r, e) ==
    IF r \in DOMAIN joined_rooms
    THEN [joined_rooms EXCEPT ![r] = RoomReceivePresenceEvent(@, e)]
    ELSE MapOrInsert(joined_rooms, r, NewRoom(r, "u1"))

\* receive_presence_event(room_id, event) (lines 589-597): joined_rooms
\* afterwards
ReceivePresenceEventFor(r, e) ==
    IF r \in DOMAIN joined_rooms
    THEN [joined_rooms EXCEPT ![r] = RoomReceivePresenceEvent(@, e)]
    ELSE joined_rooms

\* receive_presence_event for the room being folded
ReceivePresenceEvent(e) == ReceivePresenceEventFor(room_id, e)

\* the comparison handle_push_rules carries commented out (lines 447-449):
\* only a ruleset that differs from the cached one counts as a change
NonRoomEventChangedByValue(e) ==
    CASE e.type = "m.ignored_user_list" ->
            ~IgnoredUsersEqual(ignored_users, e.ignored_users)
      [] e.type = "m.presence" -> ReceivePresenceEvent(e) # joined_rooms
      [] e.type = "m.push_rules" -> push_ruleset # e.global
      [] OTHER -> FALSE

\* the bool receive_account_data_event / receive_ephemeral_event return
\* (lines 608-633)
NonRoomEventChanged(e) ==
    CASE e.type = "m.ignored_user_list" ->
            ~IgnoredUsersEqual(ignored_users, e.ignored_users)
      [] e.type = "m.presence" -> ReceivePresenceEvent(e) # joined_rooms
      [] e.type = "m.push_rules" -> TRUE
      [] OTHER -> FALSE

\* receive_account_data_event / receive_ephemeral_event: the state afterwards
ReceiveNonRoomEvent(e) ==
    /\ ignored_users' = IF e.type = "m.ignored_user_list"
                        THEN HandleIgnoredUsers(ignored_users, e.ignored_users)
                        ELSE ignored_users
    /\ push_ruleset' = IF e.type = "m.push_rules"
                       THEN HandlePushRules(push_ruleset, e.global)
                       ELSE push_ruleset
    /\ joined_rooms' = IF e.type = "m.presence"
                       THEN ReceivePresenceEvent(e) ELSE joined_rooms
    /\ updated' = (updated \/ NonRoomEventChanged(e))
    /\ peak' = CASE e.type = "m.ignored_user_list" ->
                       IF IgnoredUsersEqual(ignored_users, e.ignored_users)
                       THEN {Lock("ignored_users", "read")}
                       ELSE {Lock("ignored_users", "write")}
                 [] e.type = "m.presence" -> {RoomLock("joined", room_id, "write")}
                                                \cup GetRoomGuard("joined")
                 [] e.type = "m.push_rules" -> {Lock("push_ruleset", "write")}
                 [] OTHER -> {}

\* lines 769-775
AccountDataReceive ==
    /\ pc = "account_data"
    /\ idx < MaxEvents
    /\ idx' = idx + 1
    /\ \E e \in AccountDataEvents :
          IF Deserializes(e)
          THEN /\ event' = e
               /\ ReceiveNonRoomEvent(e)
               /\ pc' = "account_data_emit"
          ELSE /\ UNCHANGED <<event, ignored_users, push_ruleset, joined_rooms,
                              updated, pc>>
               /\ peak' = {}
    /\ out' = NoCall
    /\ UNCHANGED <<fixed_vars, sync_token, event_emitter, invited_rooms, left_rooms>>
    /\ UNCHANGED <<call_vars, events, decrypted_event, goc_vars, cb_vars, result>>

\* lines 776-777
AccountDataEmit ==
    /\ pc = "account_data_emit"
    /\ EmitEvent("account", event, "account_data")
    /\ event' = NoEvent
    /\ UNCHANGED client_vars
    /\ UNCHANGED <<call_vars, events, idx, decrypted_event, updated, goc_vars, result>>

AccountDataDone ==
    /\ pc = "account_data"
    /\ pc' = "presence"
    /\ idx' = 1
    /\ out' = NoCall
    /\ peak' = {}
    /\ UNCHANGED client_vars
    /\ UNCHANGED <<call_vars, events, event, decrypted_event, updated, goc_vars,
                   cb_vars, result>>

\* lines 786-791: every presence event of the response, for this room
PresenceReceive ==
    /\ pc = "presence"
    /\ idx <= Len(resp.presence)
    /\ idx' = idx + 1
    /\ event' = resp.presence[idx]
    /\ joined_rooms' = ReceivePresenceEvent(resp.presence[idx])
    /\ updated' = (updated \/ ReceivePresenceEvent(resp.presence[idx]) # joined_rooms)
    /\ pc' = "presence_emit"
    /\ out' = NoCall
    /\ peak' = {RoomLock("joined", room_id, "write")} \cup GetRoomGuard("joined")
    /\ UNCHANGED <<fixed_vars, data_vars, event_emitter, invited_rooms, left_rooms>>
    /\ UNCHANGED <<call_vars, events, decrypted_event, goc_vars, cb_vars, result>>

\* lines 793-794
PresenceEmit ==
    /\ pc = "presence_emit"
    /\ EmitEvent("presence", event, "presence")
    /\ event' = NoEvent
    /\ UNCHANGED client_vars
    /\ UNCHANGED <<call_vars, events, idx, decrypted_event, updated, goc_vars, result>>

PresenceDone ==
    /\ pc = "presence"
    /\ idx > Len(resp.presence)
    /\ pc' = "ephemeral"
    /\ idx' = 0
    /\ out' = NoCall
    /\ peak' = {}
    /\ UNCHANGED client_vars
    /\ UNCHANGED <<call_vars, events, event, decrypted_event, updated, goc_vars,
                   cb_vars, result>>

\* lines 799-805
EphemeralReceive ==
    /\ pc = "ephemeral"
    /\ idx < MaxEvents
    /\ idx' = idx + 1
    /\ \E e \in EphemeralEvents :
          IF Deserializes(e)
          THEN /\ event' = e
               /\ ReceiveNonRoomEvent(e)
               /\ pc' = "ephemeral_emit"
          ELSE /\ UNCHANGED <<event, ignored_users, push_ruleset, joined_rooms,
                              updated, pc>>
               /\ peak' = {}
    /\ out' = NoCall
    /\ UNCHANGED <<fixed_vars, sync_token, event_emitter, invited_rooms, left_rooms>>
    /\ UNCHANGED <<call_vars, events, decrypted_event, goc_vars, cb_vars, result>>

\* lines 806-807
EphemeralEmit ==
    /\ pc = "ephemeral_emit"
    /\ EmitEvent("ephemeral", event, "ephemeral")
    /\ event' = NoEvent
    /\ UNCHANGED client_vars
    /\ UNCHANGED <<call_vars, events, idx, decrypted_event, updated, goc_vars, result>>

EphemeralDone ==
    /\ pc = "ephemeral"
    /\ pc' = "store_room"
    /\ idx' = 0
    /\ out' = NoCall
    /\ peak' = {}
    /\ UNCHANGED client_vars
    /\ UNCHANGED <<call_vars, events, event, decrypted_event, updated, goc_vars,
                   cb_vars, result>>

----------------------------------------------------------------------------
(* the per-room write of lines 812-818 / 895-901 / 859-865 *)

\* a per-room write that, when the store fails, takes the room just folded
\* out of its map again
StoreRoomStateRollsBack ==
    /\ pc = "store_room"
    /\ IF updated /\ state_store
       THEN /\ out' = Call("store", "store_room_state", sec, room_id, NoEvent)
            /\ peak' = {Lock("state_store", "read"), RoomLock(sec, room_id, "read")}
            /\ \E ok \in BOOLEAN :
                  IF ok
                  THEN /\ pc' = "rooms"
                       /\ UNCHANGED <<result, resp, sec, todo, updated, rooms_vars>>
                  ELSE /\ pc' = "idle"
                       /\ result' = "err"
                       /\ resp' = Returned(resp)
                       /\ sec' = "joined"
                       /\ todo' = << >>
                       /\ updated' = FALSE
                       /\ SetBucket(sec, MapRemove(Bucket(sec), room_id))
       ELSE /\ out' = NoCall
            /\ peak' = IF updated THEN {Lock("state_store", "read")} ELSE {}
            /\ pc' = "rooms"
            /\ UNCHANGED <<result, resp, sec, todo, updated, rooms_vars>>
    /\ room_id' = ""
    /\ UNCHANGED <<fixed_vars, data_vars, event_emitter>>
    /\ UNCHANGED <<nfolds, pc2, events, idx, event, decrypted_event, goc_vars, cb_vars>>

StoreRoomState ==
    /\ pc = "store_room"
    /\ IF updated /\ state_store
       THEN /\ out' = Call("store", "store_room_state", sec, room_id, NoEvent)
            /\ peak' = {Lock("state_store", "read"), RoomLock(sec, room_id, "read")}
            /\ \E ok \in BOOLEAN :
                  IF ok
                  THEN /\ pc' = "rooms"
                       /\ UNCHANGED <<result, resp, sec, todo, updated>>
                  ELSE /\ pc' = "idle"
                       /\ result' = "err"
                       /\ resp' = Returned(resp)
                       /\ sec' = "joined"
                       /\ todo' = << >>
                       /\ updated' = FALSE
       ELSE /\ out' = NoCall
            /\ peak' = IF updated THEN {Lock("state_store", "read")} ELSE {}
            /\ pc' = "rooms"
            /\ UNCHANGED <<result, resp, sec, todo, updated>>
    /\ room_id' = ""
    /\ UNCHANGED client_vars
    /\ UNCHANGED <<nfolds, pc2, events, idx, event, decrypted_event, goc_vars, cb_vars>>

----------------------------------------------------------------------------
(* Operations of the client outside a fold *)

\* the outcome of one manual flush: the bucket tags of the store writes it
\* issued, in order
Flush(r, tags) ==
    [op |-> "flush", name |-> "store_room_state", bucket |-> "", room_id |-> r,
     event |-> NoEvent, writes |-> tags]

\* the buckets the three `if let Some(room) = self.get_*_room(room_id)` blocks
\* of lines 263-282 find the room in, in the order of the blocks
FlushOrder(r) ==
    SelectSeq(<<"joined", "invited", "left">>, LAMBDA b : r \in DOMAIN Bucket(b))

\* the rulesets and account-data events an application hands to
\* receive_account_data_event itself
DirectRulesets == {"rs1", "rs2"}

DirectAccountData ==
    {PushRules(rs) : rs \in DirectRulesets}
        \cup {IgnoredUserList(l) : l \in IgnoredLists} \cup {FullyRead}

\* what a direct call leaves in `out`: the event and the ruleset cached before
Direct(e, cached) ==
    [op |-> "direct", name |-> "receive_account_data_event", bucket |-> "",
     room_id |-> "", event |-> e, cached |-> cached]

\* receive_account_data_event (lines 608-615) called outside a fold, with an
\* ignored-user list, a push-rules event or an event of another kind
ReceiveAccountDataEvent(e) ==
    /\ pc = "idle"
    /\ ignored_users' = IF e.type = "m.ignored_user_list"
                        THEN HandleIgnoredUsers(ignored_users, e.ignored_users)
                        ELSE ignored_users
    /\ push_ruleset' = IF e.type = "m.push_rules"
                       THEN HandlePushRules(push_ruleset, e.global)
                       ELSE push_ruleset
    /\ result' = IF NonRoomEventChanged(e) THEN "true" ELSE "false"
    /\ out' = Direct(e, push_ruleset)
    /\ peak' = CASE e.type = "m.ignored_user_list" ->
                       IF IgnoredUsersEqual(ignored_users, e.ignored_users)
                       THEN {Lock("ignored_users", "read")}
                       ELSE {Lock("ignored_users", "write")}
                 [] e.type = "m.push_rules" -> {Lock("push_ruleset", "write")}
                 [] OTHER -> {}
    /\ UNCHANGED <<rooms_vars, fixed_vars, sync_token, event_emitter>>
    /\ UNCHANGED <<pc, call_vars, events, idx, event, decrypted_event, updated,
                   goc_vars, cb_vars>>

\* receive_presence_event(r, e) (lines 589-597) called outside a fold, for a
\* room id that may or may not be joined
DirectReceivePresenceEvent(r, e) ==
    /\ pc = "idle"
    /\ joined_rooms' = ReceivePresenceEventFor(r, e)
    /\ result' = IF ReceivePresenceEventFor(r, e) # joined_rooms THEN "true" ELSE "false"
    /\ out' = Call("direct", "receive_presence_event", "", r, e)
    /\ peak' = IF r \in DOMAIN joined_rooms
               THEN {RoomLock("joined", r, "write")} \cup GetRoomGuard("joined")
               ELSE {BucketLock("joined", "read")}
    /\ UNCHANGED <<fixed_vars, data_vars, event_emitter, invited_rooms, left_rooms>>
    /\ UNCHANGED <<pc, call_vars, events, idx, event, decrypted_event, updated,
                   goc_vars, cb_vars>>

\* store_room_state(room_id), client.rs 262-284: every block that finds the
\* room writes it; a failing write returns its error with `?`
ManualStoreRoomState(r) ==
    /\ pc = "idle"
    /\ LET wanted == IF state_store THEN FlushOrder(r) ELSE << >> IN
       \E n \in 0 .. Len(wanted) :
          /\ out' = Flush(r, SubSeq(wanted, 1, IF n < Len(wanted) THEN n + 1 ELSE n))
          /\ result' = IF n = Len(wanted) THEN "ok" ELSE "err"
          /\ peak' = {Lock("state_store", "read")}
                        \cup {RoomLock(wanted[i], r, "read") : i \in {1} \cap DOMAIN wanted}
                        \cup UNION {GetRoomGuard(wanted[i]) : i \in {1} \cap DOMAIN wanted}
    /\ UNCHANGED client_vars
    /\ UNCHANGED <<pc, call_vars, events, idx, event, decrypted_event, updated,
                   goc_vars, cb_vars>>

\* the operations that need the crypto engine and have no branch for a
\* missing one
CryptoOps ==
    {"share_group_session", "encrypt", "receive_keys_upload_response",
     "receive_keys_claim_response", "receive_keys_query_response"}

\* share_group_session (969-984), encrypt (989-1000) and
\* receive_keys_{upload,claim,query}_response (1043-1088), compiled with the
\* encryption feature.  share_group_session looks the joined room up first
\* (`expect("No room found")`); each of them panics when the engine slot is
\* empty; with an engine the engine's own result is returned.
CryptoOperation(op, r) ==
    /\ pc = "idle"
    /\ encryption
    /\ IF \/ op = "share_group_session" /\ r \notin DOMAIN joined_rooms
          \/ ~IsSome(olm)
       THEN /\ pc' = "aborted"
            /\ result' = "panic"
            /\ out' = NoCall
       ELSE /\ pc' = "idle"
            /\ result' \in {"ok", "err"}
            /\ out' = Call("olm", op, "", r, NoEvent)
    /\ peak' = IF op = "share_group_session" /\ r \in DOMAIN joined_rooms
               THEN {Lock("olm", "mutex")}
                       \cup (IF IsSome(olm) THEN {RoomLock("joined", r, "write")} ELSE {})
                       \cup GetRoomGuard("joined")
               ELSE IF op = "share_group_session" THEN {BucketLock("joined", "read")}
               ELSE {Lock("olm", "mutex")}
    /\ UNCHANGED client_vars
    /\ UNCHANGED <<call_vars, events, idx, event, decrypted_event, updated,
                   goc_vars, cb_vars>>

----------------------------------------------------------------------------
(* sync_with_state_store (client.rs 216-257) *)

\* the ClientState values a store may hold
ClientStates ==
    [sync_token : Tokens \cup {None}, ignored_users : IgnoredLists \cup {<< >>},
     push_ruleset : Rulesets \cup {None}]

\* the Rooms a store may hold under room id r
LoadedRooms(r) == {[NewRoom(r, "u1") EXCEPT !.members = {"u1"}]}

\* the room maps a store may hold
LoadedMaps ==
    {EmptyMap}
        \cup UNION {{[x \in {r} |-> room] : room \in LoadedRooms(r)} : r \in RoomIds}

\* the AllRooms values a store may hold
AllRooms == [joined : LoadedMaps, invited : LoadedMaps, left : LoadedMaps]

\* what the store answers to one sync_with_state_store: load_client_state
\* gives an error, Ok(None) or Ok(Some(state)), and after a state
\* load_all_rooms gives an error or Ok(rooms)
Answer(creply, c, rreply, rooms) ==
    [client |-> creply, state |-> c, rooms |-> rreply, all_rooms |-> rooms]
NoClientState == [sync_token |-> None, ignored_users |-> << >>, push_ruleset |-> None]
NoRooms == [joined |-> EmptyMap, invited |-> EmptyMap, left |-> EmptyMap]
\* load_client_state answers Ok(None)
NothingStored == Answer("none", NoClientState, "none", NoRooms)
StoreAnswers ==
    {Answer(x, NoClientState, "none", NoRooms) : x \in {"err", "none"}}
       \cup {Answer("some", c, "err", NoRooms) : c \in ClientStates}
       \cup {Answer("some", c, "ok", rooms) : c \in ClientStates, rooms \in AllRooms}

\* the loads of one sync_with_state_store, with what the store answered
Load(answer) ==
    [op |-> "load", name |-> "sync_with_state_store", bucket |-> "", room_id |-> "",
     event |-> NoEvent, answer |-> answer]

\* a map that keeps its earlier entries and adds the loaded ones
MergeRooms(cached, loaded) ==
    [x \in (DOMAIN cached) \cup (DOMAIN loaded) |->
        IF x \in DOMAIN loaded THEN loaded[x] ELSE cached[x]]

\* `*self.joined_rooms.write().await = joined.drain().map(..).collect()`
\* (lines 240-251): the map is replaced by the loaded one
ReplaceRooms(cached, loaded) == loaded

\* a result that does not look at the flag
SyncResultTrue(needs) == "true"

\* `Ok(!self.needs_state_store_sync.load(Ordering::Relaxed))`, line 256
SyncResult(needs) == IF needs THEN "false" ELSE "true"

\* one call of sync_with_state_store, with the store's answers
SyncWithStateStore(answer) ==
    LET creply == answer.client
        c == answer.state
        rreply == answer.rooms
        rooms == answer.all_rooms
    IN
    /\ pc = "idle"
    /\ IF state_store /\ IsSome(session)
       THEN CASE creply = "err" ->
                    /\ result' = "err"
                    /\ out' = Load(answer)
                    /\ UNCHANGED <<data_vars, rooms_vars, needs_state_store_sync>>
              [] creply = "none" ->
                    /\ result' = "false"
                    /\ out' = Load(answer)
                    /\ UNCHANGED <<data_vars, rooms_vars, needs_state_store_sync>>
              [] creply = "some" ->
                    /\ sync_token' = c.sync_token
                    /\ ignored_users' = c.ignored_users
                    /\ push_ruleset' = c.push_ruleset
                    /\ out' = Load(answer)
                    /\ IF rreply = "err"
                       THEN /\ result' = "err"
                            /\ UNCHANGED <<rooms_vars, needs_state_store_sync>>
                       ELSE /\ joined_rooms' = ReplaceRooms(joined_rooms, rooms.joined)
                            /\ invited_rooms' = ReplaceRooms(invited_rooms, rooms.invited)
                            /\ left_rooms' = ReplaceRooms(left_rooms, rooms.left)
                            /\ needs_state_store_sync' = FALSE
                            /\ result' = SyncResult(FALSE)
       ELSE /\ result' = SyncResult(needs_state_store_sync)
            /\ out' = NoCall
            /\ UNCHANGED <<data_vars, rooms_vars, needs_state_store_sync>>
    /\ peak' = {Lock("state_store", "read")}
                  \cup (IF state_store THEN {Lock("session", "read")} ELSE {})
                  \cup (IF state_store /\ IsSome(session) /\ creply = "some"
                        THEN {Lock("sync_token", "write")} ELSE {})
    /\ UNCHANGED <<session, state_store, olm, encryption, event_emitter>>
    /\ UNCHANGED <<pc, call_vars, events, idx, event, decrypted_event, updated,
                   goc_vars, cb_vars>>

\* the login responses a server may send
LoginResponses ==
    Sessions \cup {[user_id |-> "u2", device_id |-> "d2", access_token |-> "a2"]}

\* the client between folds: logins, state-store syncs and manual flushes
NextStore ==
    \/ \E s \in LoginResponses : ReceiveLoginResponse(s)
    \/ \E answer \in StoreAnswers : SyncWithStateStore(answer)
    \/ \E r \in RoomIds : ManualStoreRoomState(r)
    \/ \E e \in DirectAccountData : ReceiveAccountDataEvent(e)

SpecStore == Init /\ [][NextStore]_vars

----------------------------------------------------------------------------
(* The specification *)

Next ==
    \/ \E s \in Sessions : ReceiveLoginResponse(s)
    \/ AddEventEmitter
    \/ \E r \in Responses : ReceiveSyncResponse(r)
    \/ WriteSyncToken
    \/ CryptoReceiveSyncResponse
    \/ NextRoom
    \/ NextSection
    \/ StoreClientState
    \/ GetOrCreateEvict
    \/ GetOrCreateInsert
    \/ StateReceive
    \/ StateApply
    \/ StateDone
    \/ UpdateTrackedUsers
    \/ SetSummaryAndUnread
    \/ EmitStateEvent
    \/ EmitStateDone
    \/ TimelineReceive
    \/ TimelineApply
    \/ TimelineEmit
    \/ TimelineDone
    \/ AccountDataReceive
    \/ AccountDataEmit
    \/ AccountDataDone
    \/ PresenceReceive
    \/ PresenceEmit
    \/ PresenceDone
    \/ EphemeralReceive
    \/ EphemeralEmit
    \/ EphemeralDone
    \/ StoreRoomState
    \/ CallbackRun
    \/ CallbackReturn
    \/ \E r \in RoomIds : ManualStoreRoomState(r)
    \/ \E op \in CryptoOps, r \in RoomIds : CryptoOperation(op, r)

Spec == Init /\ [][Next]_vars

----------------------------------------------------------------------------
(* Folds of responses with two rooms in a section *)

\* responses that list up to two rooms as joined and up to two as left
TwoRoomResponses ==
    [next_batch : Tokens, join : {{}, {"r1", "r2"}}, invite : {{}},
     leave : {{}, {"r1", "r2"}}, presence : PresenceLists]

\* the fold, without a subscriber
NextRooms ==
    \/ \E r \in TwoRoomResponses : ReceiveSyncResponse(r)
    \/ WriteSyncToken
    \/ CryptoReceiveSyncResponse
    \/ NextRoom
    \/ NextSection
    \/ StoreClientState
    \/ GetOrCreateEvict
    \/ GetOrCreateInsert
    \/ StateReceive
    \/ StateApply
    \/ StateDone
    \/ UpdateTrackedUsers
    \/ SetSummaryAndUnread
    \/ EmitStateEvent
    \/ EmitStateDone
    \/ TimelineReceive
    \/ TimelineApply
    \/ TimelineEmit
    \/ TimelineDone
    \/ AccountDataReceive
    \/ AccountDataEmit
    \/ AccountDataDone
    \/ PresenceReceive
    \/ PresenceEmit
    \/ PresenceDone
    \/ EphemeralReceive
    \/ EphemeralEmit
    \/ EphemeralDone
    \/ StoreRoomState

SpecRooms == Init /\ [][NextRooms]_vars

----------------------------------------------------------------------------
(* A fold that is abandoned *)

\* the caller drops the future of receive_sync_response (client.rs 648-693)
\* while it is suspended at one of its awaits: the fold stops where it is,
\* its locals and every guard it or its callback holds are dropped, and the
\* client is free for the next operation
Cancel ==
    /\ pc \notin {"idle", "aborted"}
    /\ pc' = "idle"
    /\ result' = "cancelled"
    /\ resp' = Returned(resp)
    /\ sec' = "joined"
    /\ todo' = << >>
    /\ room_id' = ""
    /\ events' = << >>
    /\ idx' = 0
    /\ event' = NoEvent
    /\ decrypted_event' = NoEvent
    /\ updated' = FALSE
    /\ ret' = ""
    /\ goc' = << >>
    /\ cb' = "nothing"
    /\ cb_ret' = ""
    /\ held' = {}
    /\ cb_held' = {}
    /\ peak' = {}
    /\ out' = NoCall
    /\ UNCHANGED <<client_vars, nfolds, pc2>>

NextCancel == Next \/ Cancel

SpecCancel == Init /\ [][NextCancel]_vars

----------------------------------------------------------------------------
(* Folds, loads and the other operations of one client *)

\* the store answers used beside folds: the stored client state carries at
\* most a token, the stored rooms are joined or left ones
FrameAnswers ==
    {a \in StoreAnswers :
        /\ a.state.ignored_users = << >>
        /\ a.state.push_ruleset = None
        /\ a.state.sync_token \in {None, "t1"}
        /\ a.all_rooms.invited = EmptyMap}

NextFrame ==
    \/ Next
    \/ \E answer \in FrameAnswers : SyncWithStateStore(answer)
    \/ \E r \in RoomIds : DirectReceivePresenceEvent(r, Presence("u1"))

SpecFrame == Init /\ [][NextFrame]_vars

----------------------------------------------------------------------------
(* Two concurrent receive_sync_response calls *)

\* a second task calls receive_sync_response with the next_batch of the
\* response the first task is folding, while the first task is suspended at
\* one of its awaits: the guard of lines 655-657, under the read lock
Task2ReceiveSyncResponse ==
    /\ pc2.at = "idle"
    /\ pc \notin {"idle", "aborted"}
    /\ pc2' = [at |-> IF AlreadyReceived(sync_token, resp.next_batch)
                      THEN "returned" ELSE "write_token",
               next_batch |-> resp.next_batch]
    /\ UNCHANGED client_vars
    /\ UNCHANGED <<pc, resp, sec, todo, room_id, nfolds, events, idx, event,
                   decrypted_event, updated, goc_vars, cb_vars, peak, out, result>>

\* line 659 of the second call, under the write lock taken after the read
\* lock of the guard was released; the call then goes on to fold
Task2WriteSyncToken ==
    /\ pc2.at = "write_token"
    /\ sync_token' = StoredSyncToken(pc2.next_batch)
    /\ pc2' = [pc2 EXCEPT !.at = "fold"]
    /\ UNCHANGED <<fixed_vars, rooms_vars, ignored_users, push_ruleset, event_emitter>>
    /\ UNCHANGED <<pc, resp, sec, todo, room_id, nfolds, events, idx, event,
                   decrypted_event, updated, goc_vars, cb_vars, peak, out, result>>

\* the first task folds, without a subscriber; the second task calls in
NextRace ==
    \/ \E r \in Responses : ReceiveSyncResponse(r)
    \/ WriteSyncToken
    \/ CryptoReceiveSyncResponse
    \/ NextRoom
    \/ NextSection
    \/ StoreClientState
    \/ GetOrCreateEvict
    \/ GetOrCreateInsert
    \/ StateReceive
    \/ StateApply
    \/ StateDone
    \/ UpdateTrackedUsers
    \/ SetSummaryAndUnread
    \/ EmitStateEvent
    \/ EmitStateDone
    \/ TimelineReceive
    \/ TimelineApply
    \/ TimelineEmit
    \/ TimelineDone
    \/ AccountDataReceive
    \/ AccountDataEmit
    \/ AccountDataDone
    \/ PresenceReceive
    \/ PresenceEmit
    \/ PresenceDone
    \/ EphemeralReceive
    \/ EphemeralEmit
    \/ EphemeralDone
    \/ StoreRoomState
    \/ Task2ReceiveSyncResponse
    \/ Task2WriteSyncToken

SpecRace == Init /\ [][NextRace]_vars

----------------------------------------------------------------------------
(* One fold beside a reader task *)

\* the read guards of the reading calls: get_joined_room, get_invited_room,
\* get_left_room (lines 340-342, 378-380, 417-419), sync_token (637-639) and
\* logged_in (195-199)
ReaderLocks ==
    {BucketLock(b, "read") : b \in Buckets}
        \cup {Lock("sync_token", "read"), Lock("session", "read")}

\* the reader task while it holds the guard l
Reader(l) == [at |-> "reading", next_batch |-> None, lock |-> l]
ReaderHeld == IF pc2.at = "reading" THEN {pc2.lock} ELSE {}

\* another task calls one of the reading functions: `self.<field>.read().await`
\* is granted once no lock the fold or its callback holds across an await
\* stands against it
ReaderCall(l) ==
    /\ pc2 = Task2Idle
    /\ ~Blocked(l, held \cup cb_held)
    /\ pc2' = Reader(l)
    /\ UNCHANGED client_vars
    /\ UNCHANGED <<pc, resp, sec, todo, room_id, nfolds, events, idx, event,
                   decrypted_event, updated, goc_vars, cb_vars, peak, out, result>>

\* the value is read and the guard, a temporary, is dropped
ReaderRelease ==
    /\ pc2.at = "reading"
    /\ pc2' = Task2Idle
    /\ UNCHANGED client_vars
    /\ UNCHANGED <<pc, resp, sec, todo, room_id, nfolds, events, idx, event,
                   decrypted_event, updated, goc_vars, cb_vars, peak, out, result>>

\* the callbacks that only lock the Room they were handed
RoomCallbackActs == {"nothing", "read_room", "write_room"}

\* a step of the fold or of its callback, which has to wait while the reader
\* holds a guard that stands against a lock the step takes
FoldStep ==
    /\ \/ WriteSyncToken
       \/ CryptoReceiveSyncResponse
       \/ NextRoom
       \/ NextSection
       \/ StoreClientState
       \/ GetOrCreateEvict
       \/ GetOrCreateInsert
       \/ StateReceive
       \/ StateApply
       \/ StateDone
       \/ UpdateTrackedUsers
       \/ SetSummaryAndUnread
       \/ EmitStateEvent
       \/ EmitStateDone
       \/ TimelineReceive
       \/ TimelineApply
       \/ TimelineEmit
       \/ TimelineDone
       \/ AccountDataReceive
       \/ AccountDataEmit
       \/ AccountDataDone
       \/ PresenceReceive
       \/ PresenceEmit
       \/ PresenceDone
       \/ EphemeralReceive
       \/ EphemeralEmit
       \/ EphemeralDone
       \/ StoreRoomState
       \/ CallbackRun
       \/ CallbackReturn
    /\ cb' \in RoomCallbackActs
    /\ \A l \in peak' \cup cb_held' : ~Blocked(l, ReaderHeld)

\* the responses of the one call: a room stands in at most one section
LiveResponses ==
    {r \in Responses :
        /\ r.next_batch = "t1"
        /\ r.join \cap r.invite = {}
        /\ r.join \cap r.leave = {}
        /\ r.invite \cap r.leave = {}}

\* the one receive_sync_response call, of a logged-in client
FoldCall ==
    /\ nfolds = 0
    /\ IsSome(session)
    /\ \E r \in LiveResponses : ReceiveSyncResponse(r)

NextLive ==
    \/ AddEventEmitter
    \/ FoldCall
    \/ FoldStep
    \/ \E l \in ReaderLocks : ReaderCall(l)
    \/ ReaderRelease

\* every await of the fold returns: the store, the engine and the callback
\* answer, and a lock the fold queues for is granted once its holders have
\* released it (the locks serve their waiters in order); the reader's guard
\* is a temporary and is dropped
SpecLive ==
    /\ Init
    /\ [][NextLive]_vars
    /\ SF_vars(FoldStep)
    /\ WF_vars(ReaderRelease)

----------------------------------------------------------------------------
(* Properties *)

\* a step with which a receive_sync_response call returns Ok: the early
\* return of line 656, or the Ok(()) of line 692
FoldReturnsOk ==
    \/ pc = "idle" /\ nfolds' # nfolds /\ pc' = "idle"
    \/ pc = "rooms" /\ pc' = "idle" /\ result' = "ok"

\* the buckets that hold room id r
BucketsOf(r) == {b \in Buckets : r \in DOMAIN Bucket(b)}

\* C1: single-bucket invariant.  In every reachable state, the states between
\* two critical sections of a fold included, each room id is a key of at
\* most one of joined_rooms, invited_rooms, left_rooms.
C1_SingleBucket == \A r \in RoomIds : Cardinality(BucketsOf(r)) <= 1

\* C2: idempotence guard.  A receive_sync_response call whose next_batch
\* equals the current sync_token returns Ok at once and changes no field of
\* the client; it calls neither the crypto engine nor a subscriber callback
\* nor the StateStore.
C2_IdempotenceGuard ==
    [][(pc = "idle" /\ nfolds' # nfolds /\ sync_token = resp'.next_batch)
          => /\ UNCHANGED client_vars
             /\ pc' = "idle"
             /\ result' = "ok"
             /\ out' = NoCall]_vars

\* a second call with the token of the first has returned early, leaving the
\* rooms of the first in place
C2_Witness ==
    /\ pc = "idle"
    /\ nfolds = 2
    /\ result = "ok"
    /\ peak = {Lock("sync_token", "read")}
    /\ out = NoCall
    /\ sync_token = resp.next_batch
    /\ "r1" \in DOMAIN joined_rooms

\* C3: cursor.  Whenever receive_sync_response(R) returns Ok, sync_token
\* equals R.next_batch.
C3_Cursor == [][FoldReturnsOk => sync_token' = resp'.next_batch]_vars

\* a second fold with a new token ran to its end and stored the client state
C3_Witness ==
    /\ pc = "idle"
    /\ nfolds = 2
    /\ result = "ok"
    /\ out.name = "store_client_state"
    /\ sync_token = "t2"
    /\ resp.next_batch = "t2"

\* does the client state handed to a callback reflect event e
\* (room: the Room the callback is given)
Reflects(room, e) ==
    CASE e.type = "m.room.member" -> e.user \in room.members
      [] e.type = "m.presence" -> (e.user \in room.members => e.user \in room.presence)
      [] e.type = "m.ignored_user_list" -> ignored_users = e.ignored_users
      [] e.type = "m.push_rules" -> push_ruleset = e.global
      [] OTHER -> TRUE

\* C4: emit-after-apply.  Whenever a subscriber callback is invoked for an
\* event of a fold, the Room handed to it (or the client state) already
\* reflects that event.
C4_EmitAfterApply ==
    pc = "callback" => Reflects(Bucket(out.bucket)[out.room_id], out.event)

\* C5: lock-free callbacks.  When a callback is invoked the folding task
\* holds no write lock on the delivered Room and no lock on a bucket map, and
\* a callback that locks the Room it was given, for reading or for writing,
\* is not made to wait.
C5_LockFreeCallbacks ==
    pc = "callback" =>
       /\ \A h \in held : h.lock # "rooms" /\ ~(h.lock = "room" /\ h.mode = "write")
       /\ cb \in {"read_room", "write_room"} =>
             \A l \in CallbackNeeds(cb, out.bucket, out.room_id) : ~Blocked(l, held)

\* a callback has taken the write lock of the Room it was given
C5_Witness ==
    /\ pc = "callback_return"
    /\ cb = "write_room"
    /\ cb_held = {RoomLock(out.bucket, out.room_id, "write")}

\* C6: no lock of the client at all is held by the dispatching task while a
\* callback executes; a callback that calls add_event_emitter is not blocked.
C6_NoLockAcrossCallback ==
    /\ pc \in {"callback", "callback_return"} => held = {}
    /\ pc = "callback" /\ cb = "add_event_emitter" =>
          ~Blocked(Lock("event_emitter", "write"), held)

\* C7: bucket transition into joined.  When a fold of a response returns Ok,
\* every room id of its rooms.join that is in neither rooms.invite nor
\* rooms.leave is a key of joined_rooms and of no other map, whatever bucket
\* it was in before and whether or not its entry carried events.
C7_TransitionIntoJoined ==
    [][(pc = "rooms" /\ pc' = "idle" /\ result' = "ok")
          => \A r \in resp.join \ (resp.invite \cup resp.leave) :
                 /\ r \in DOMAIN joined_rooms'
                 /\ r \notin DOMAIN invited_rooms'
                 /\ r \notin DOMAIN left_rooms']_vars

\* the second fold, of a response with r1 in rooms.join only, has folded its
\* three sections
C7_Witness ==
    /\ pc = "rooms"
    /\ sec = "left"
    /\ todo = << >>
    /\ nfolds = 2
    /\ resp.join = {"r1"} /\ resp.invite = {} /\ resp.leave = {}
    /\ BucketsOf("r1") = {"joined"}

\* C8: ignored-users stability.  Handling an m.ignored_user_list event
\* signals a change exactly when the incoming list differs from the cached
\* one, element by element and in order; equal lists leave the cached list
\* untouched (no write lock is taken) and cause no room write; different
\* lists make the incoming list the cached one.  A room is written to the
\* store only when a change was signalled.
C8_IgnoredUsersStability ==
    [][/\ (pc = "account_data" /\ pc' = "account_data_emit"
              /\ event'.type = "m.ignored_user_list")
          => /\ ~updated => (updated' <=> ignored_users # event'.ignored_users)
             /\ ignored_users' = event'.ignored_users
             /\ ignored_users = event'.ignored_users
                   => Lock("ignored_users", "write") \notin peak'
       /\ (pc = "store_room" /\ ~updated) => out' = NoCall]_vars

\* an m.ignored_user_list event equal to the cached, non-empty list has been
\* handled and has signalled no change
C8_Witness ==
    /\ pc = "account_data_emit"
    /\ event.type = "m.ignored_user_list"
    /\ ignored_users = event.ignored_users
    /\ peak = {Lock("ignored_users", "read")}
    /\ ~updated

\* C9: for an encrypted timeline event of a joined room that the engine
\* decrypts, the decrypted event replaces the envelope in the response's
\* timeline, and the event handed to the subscriber is the decrypted one,
\* never the envelope.
C9_DecryptedEventDispatched ==
    [][/\ (pc = "timeline_apply" /\ decrypted_event # NoEvent)
          => event' = decrypted_event
       /\ (pc = "timeline_emit" /\ decrypted_event # NoEvent /\ event_emitter # None)
          => /\ pc' = "callback"
             /\ out'.op = "callback"
             /\ out'.event = decrypted_event
             /\ out'.event.type # "m.room.encrypted"]_vars

\* a callback is running with the plaintext of an envelope
C9_Witness ==
    /\ pc = "callback"
    /\ cb_ret = "timeline"
    /\ decrypted_event = Message
    /\ out.name = "on_room_message"
    /\ out.event = decrypted_event

\* C10: when decryption of an encrypted timeline event fails, or there is no
\* engine, the fold does not fail, the event stays in its encrypted form, and
\* a subscriber callback is still invoked carrying the envelope.
C10_EnvelopeDispatched ==
    [][/\ (pc = "timeline_apply" /\ event.type = "m.room.encrypted"
              /\ decrypted_event = NoEvent)
          => event' = event /\ pc' = "timeline_emit" /\ result' = result
       /\ (pc = "timeline_emit" /\ event.type = "m.room.encrypted"
              /\ event_emitter # None)
          => /\ pc' = "callback"
             /\ out'.op = "callback"
             /\ out'.event = event]_vars

\* C14: a failed StateStore write (store_room_state or store_client_state)
\* during a fold is the fold's result, and nothing is rolled back: the step
\* that returns the error changes no field of the client, and sync_token
\* already equals the response's next_batch.
C14_StoreErrorKeepsState ==
    [][(pc # "idle" /\ pc' = "idle" /\ result' = "err")
          => /\ UNCHANGED client_vars
             /\ out'.op = "store"
             /\ sync_token' = resp.next_batch]_vars

\* a fold has returned the error of a room write; the member it had added to
\* the joined room is still there
C14_Witness ==
    /\ pc = "idle"
    /\ result = "err"
    /\ out.name = "store_room_state"
    /\ out.bucket = "joined"
    /\ sync_token = resp.next_batch
    /\ "r1" \in DOMAIN joined_rooms
    /\ joined_rooms["r1"].members = {"u1"}

\* C15: an event that fails to deserialize is skipped.  It is applied to no
\* Room and handed to no callback, the fold goes on with the same loop (the
\* next event of the section, then the later sections), and the fold's
\* result is not changed by it.
C15_UndeserializableSkipped ==
    [][/\ (pc = "state" /\ Len(events') = Len(events) + 1
              /\ events'[Len(events')].type = "undeserializable")
          => /\ UNCHANGED <<client_vars, updated, result, event>>
             /\ pc' = "state"
             /\ out' = NoCall
       /\ (pc \in {"timeline", "account_data"} /\ idx' = idx + 1 /\ pc' # "presence")
          => \/ event' # NoEvent /\ event'.type # "undeserializable"
             \/ /\ UNCHANGED <<client_vars, updated, result, event>>
                /\ pc' = pc
                /\ out' = NoCall
       /\ (pc = "emit_state" /\ idx <= Len(events)
              /\ events[idx].type = "undeserializable")
          => /\ UNCHANGED <<client_vars, updated, result>>
             /\ pc' = "emit_state"
             /\ idx' = idx + 1
             /\ out' = NoCall
       /\ event'.type # "undeserializable"
       /\ out'.event.type # "undeserializable"]_vars

\* the one state event of a joined room was skipped by both loops over the
\* state events, and the fold has created the Room and set its summary
C15_Witness ==
    /\ pc = "emit_state"
    /\ sec = "joined"
    /\ events = <<Undeserializable>>
    /\ idx = 2
    /\ result = "running"
    /\ joined_rooms["r1"].members = {}
    /\ joined_rooms["r1"].summary = "summary"


\* the position an emit of the fold returns to
EmitReturnsTo(p) ==
    CASE p = "emit_state" -> "emit_state"
      [] p = "timeline_emit" -> "timeline"
      [] p = "account_data_emit" -> "account_data"
      [] p = "presence_emit" -> "presence"
      [] p = "ephemeral_emit" -> "ephemeral"
      [] OTHER -> ""

\* what the fold itself changes: everything but the subscriber slot, the
\* program position and the bookkeeping of the call-out
FoldState ==
    <<fixed_vars, data_vars, rooms_vars, call_vars, events, idx, event,
      decrypted_event, updated, goc_vars, result>>

\* C16: without a subscriber every emit is a no-op, and a subscriber changes
\* nothing of what a fold produces.  An emit step with no subscriber installed
\* calls nothing and goes straight on; an emit step with a subscriber goes on
\* at the same position once the callback has returned; and the call-out
\* itself changes no bucket, no Room, no sync_token, no ignored users, no push
\* ruleset, no flag of the fold, and writes nothing to the store.
C16_EmitWithoutSubscriber ==
    [][/\ (EmitReturnsTo(pc) # "" /\ event_emitter = None
              /\ ~(pc = "emit_state" /\ idx > Len(events)))
          => /\ pc' = EmitReturnsTo(pc)
             /\ out' = NoCall
             /\ UNCHANGED <<client_vars, updated, result>>
       /\ (EmitReturnsTo(pc) # "" /\ pc' = "callback")
          => /\ cb_ret' = EmitReturnsTo(pc)
             /\ event_emitter # None
             /\ UNCHANGED <<client_vars, updated, result>>
       /\ pc \in {"callback", "callback_return"}
          => /\ UNCHANGED FoldState
             /\ out'.op \in {"none", "callback"}
             /\ pc' = IF pc = "callback" THEN "callback_return" ELSE cb_ret
       /\ pc' = "callback" => EmitReturnsTo(pc) # ""]_vars

\* a timeline event of a joined room was applied to its Room and its emit
\* has returned, with no subscriber installed
C16_Witness ==
    /\ pc = "timeline"
    /\ sec = "joined"
    /\ idx = 1
    /\ event_emitter = None
    /\ out = NoCall
    /\ "r1" \in DOMAIN joined_rooms
    /\ joined_rooms["r1"].members = {"u1"}


\* C20: each get_or_create helper leaves the room id in its own bucket
\* only.  When get_or_create_joined_room, get_or_create_invited_room or
\* get_or_create_left_room returns, the room id is a key of the target bucket
\* and of neither of the other two.
C20_HelperLeavesOneBucket ==
    [][(pc = "get_or_create" /\ goc = << >> /\ pc' = ret)
          => BucketsOf(room_id)' = {sec}]_vars


\* C18: an operation that needs a session or a crypto engine and finds none
\* ends with a failure value.  No call (a fold of a response that lists a
\* room, share_group_session, encrypt, receive_keys_upload_response,
\* receive_keys_claim_response, receive_keys_query_response) aborts the
\* process.
C18_FailureNotAbort == pc # "aborted" /\ result # "panic"


\* C19: the manual flush.  store_room_state(room_id) issues at most one store
\* write, tagged with the bucket that holds the room; it issues none and
\* returns Ok when no store is configured or the room is in no bucket; and it
\* changes neither the buckets nor the Room.
C19_ManualFlush ==
    [][out'.op = "flush"
          => /\ Len(out'.writes) <= 1
             /\ \A i \in DOMAIN out'.writes : out'.writes[i] \in BucketsOf(out'.room_id)
             /\ (~state_store \/ BucketsOf(out'.room_id) = {})
                   => (out'.writes = << >> /\ result' = "ok")
             /\ UNCHANGED rooms_vars]_vars


\* logged_in(), client.rs 195-199
logged_in == IsSome(session)
\* is_state_store_synced(), client.rs 209-211
is_state_store_synced == ~needs_state_store_sync

\* C11: sync_with_state_store without anything to load.  When no store is
\* configured, when the client has no session, or when load_client_state
\* answers Ok(None), the call returns false and sync_token, ignored_users,
\* push_ruleset, the three buckets and the needs-sync flag are unchanged.
C11_NothingLoaded ==
    [][(\/ (~state_store \/ ~logged_in) /\ SyncWithStateStore(NothingStored)
        \/ out'.op = "load" /\ out'.answer.client = "none")
          => /\ result' = "false"
             /\ UNCHANGED <<data_vars, rooms_vars, needs_state_store_sync>>]_vars

\* after a successful load the store answered Ok(None) to a second call: the
\* call returned false and the loaded values are still in place
C11_Witness ==
    /\ pc = "idle"
    /\ result = "false"
    /\ out.op = "load"
    /\ out.answer.client = "none"
    /\ state_store
    /\ logged_in
    /\ sync_token = "t1"
    /\ DOMAIN joined_rooms = {"r1"}
    /\ ~needs_state_store_sync

\* C12: a successful load.  With a store, a session, a loaded client state
\* and loaded rooms, sync_with_state_store returns true; sync_token,
\* ignored_users and push_ruleset are the loaded values, each bucket has
\* exactly the keys of the loaded map, and is_state_store_synced() is true.
C12_Loaded ==
    [][(out'.op = "load" /\ out'.answer.client = "some" /\ out'.answer.rooms = "ok")
          => LET a == out'.answer IN
             /\ result' = "true"
             /\ sync_token' = a.state.sync_token
             /\ ignored_users' = a.state.ignored_users
             /\ push_ruleset' = a.state.push_ruleset
             /\ DOMAIN joined_rooms' = DOMAIN a.all_rooms.joined
             /\ DOMAIN invited_rooms' = DOMAIN a.all_rooms.invited
             /\ DOMAIN left_rooms' = DOMAIN a.all_rooms.left
             /\ is_state_store_synced']_vars

\* a second load has returned true after the store had lost the joined room
\* of the first: the bucket no longer holds it
C12_Witness ==
    /\ pc = "idle"
    /\ result = "true"
    /\ out.op = "load"
    /\ out.answer.all_rooms.joined = EmptyMap
    /\ sync_token = "t2"
    /\ ignored_users = <<"u2", "u1">>
    /\ push_ruleset = "rs1"
    /\ joined_rooms = EmptyMap
    /\ invited_rooms = EmptyMap
    /\ DOMAIN left_rooms = {"r1"}
    /\ is_state_store_synced

\* C13: login.  After receive_login_response(resp) the session is
\* (resp.access_token, resp.device_id, resp.user_id) whatever it was before,
\* logged_in() is true, and in a build with the encryption feature the
\* engine slot holds an engine made for (resp.user_id, resp.device_id).
C13_Login ==
    [][\A s \in LoginResponses :
          ReceiveLoginResponse(s)
             => /\ session' = Some(s)
                /\ logged_in'
                /\ encryption
                      => olm' = Some(OlmMachineNew(s.user_id, s.device_id))]_vars

\* the client is logged in as u2 on d2 with an engine for u2 on d2, after
\* it had loaded its state under an earlier session
C13_Witness ==
    /\ pc = "idle"
    /\ result = "ok"
    /\ logged_in
    /\ Unwrap(session).user_id = "u2"
    /\ encryption
    /\ olm = Some(OlmMachineNew("u2", "d2"))
    /\ is_state_store_synced
    /\ DOMAIN joined_rooms = {"r1"}
    /\ joined_rooms["r1"].own_user_id = "u1"


\* C17: two concurrent calls with the same next_batch.  Under every
\* interleaving at most one of them gets past the idempotence guard and
\* folds the response; the other returns at the guard.
C17_AtMostOneFolds ==
    ~(/\ pc2.at = "fold"
      /\ pc \notin {"idle", "aborted", "write_token"}
      /\ result = "running"
      /\ pc2.next_batch = resp.next_batch)


\* C21: the token is written once, first.  In a fold that passes the
\* idempotence check sync_token is written exactly once, to the response's
\* next_batch, and every call to the crypto engine, every change of a bucket
\* or a Room, every callback and every store write of the fold comes after
\* that write.
C21_TokenWrittenFirst ==
    [][/\ pc = "write_token"
          => /\ sync_token # resp.next_batch
             /\ sync_token' = resp.next_batch
             /\ out' = NoCall
             /\ UNCHANGED rooms_vars
       /\ (pc \notin {"idle", "write_token"})
          => UNCHANGED sync_token
       /\ (pc # "idle" /\ (out'.op # "none" \/ rooms_vars' # rooms_vars))
          => /\ pc # "write_token"
             /\ sync_token = resp.next_batch
       /\ (pc = "idle" /\ pc' # "idle" /\ pc' # "aborted")
          => /\ pc' = "write_token"
             /\ UNCHANGED <<sync_token, rooms_vars>>
             /\ out' = NoCall]_vars

\* the second fold has written its token t2 and has not yet called the
\* engine or touched the room the first fold created
C21_Witness ==
    /\ pc = "crypto_sync"
    /\ nfolds = 2
    /\ sync_token = "t2"
    /\ resp.next_batch = "t2"
    /\ resp.join = {"r1"}
    /\ out = NoCall
    /\ DOMAIN joined_rooms = {"r1"}


\* the rooms of the response's section s
SectionRooms(s) ==
    CASE s = "joined" -> resp.join
      [] s = "invited" -> resp.invite
      [] s = "left" -> resp.leave

\* C22: step order of a fold.  The crypto engine, if there is one, receives
\* the response before any room is folded; then the rooms of rooms.join are
\* folded, then those of rooms.invite, then those of rooms.leave, every room
\* of a section before the next section starts; the client state is stored
\* only after all three sections.
C22_StepOrder ==
    [][/\ pc = "crypto_sync"
          => /\ out' = IF encryption /\ IsSome(olm)
                       THEN Call("olm", "receive_sync_response", "", "", NoEvent)
                       ELSE NoCall
             /\ sec' = "joined"
             /\ todo' = InOrder(resp.join)
             /\ UNCHANGED rooms_vars
       /\ out'.name = "receive_sync_response" => pc = "crypto_sync"
       /\ (pc \notin {"idle", "crypto_sync"} /\ pc' # "idle" /\ sec' # sec)
          => /\ todo = << >>
             /\ pc = "rooms"
             /\ <<sec, sec'>> \in {<<"joined", "invited">>, <<"invited", "left">>}
             /\ todo' = InOrder(SectionRooms(sec'))
       /\ (pc \notin {"idle", "crypto_sync"} /\ pc' # "idle" /\ sec' = sec)
          => \/ todo' = todo
             \/ /\ todo # << >>
                /\ todo' = Tail(todo)
                /\ room_id' = Head(todo)
                /\ room_id' \in SectionRooms(sec)
       /\ (pc \notin {"idle", "crypto_sync"} /\ room_id' # room_id /\ room_id' # "")
          => pc = "rooms" /\ room_id' = Head(todo)
       /\ out'.name = "store_client_state"
          => /\ pc = "rooms"
             /\ sec = "left"
             /\ todo = << >>
             /\ pc' = "idle"
       /\ (pc \notin {"idle", "aborted"} /\ pc' = "idle" /\ result' = "ok")
          => /\ sec = "left"
             /\ todo = << >>
             /\ state_store => out'.name = "store_client_state"]_vars

\* the left room of a response that lists r1 in all three sections is being
\* folded, after the engine has seen the response and r1 was folded as a
\* joined and as an invited room
C22_Witness ==
    /\ pc = "state"
    /\ sec = "left"
    /\ room_id = "r1"
    /\ todo = << >>
    /\ resp.join = {"r1"}
    /\ resp.invite = {"r1"}
    /\ resp.leave = {"r1"}
    /\ encryption
    /\ IsSome(olm)
    /\ BucketsOf("r1") = {"joined", "invited"}


\* where the fold of a room is, seen through the helper and the callback
Position ==
    IF pc = "get_or_create" THEN ret
    ELSE IF pc \in {"callback", "callback_return"} THEN cb_ret
    ELSE pc

\* the part of a room's fold a position belongs to: 1 the state events are
\* applied, 2 tracked users, summary and counts, 3 the state callbacks,
\* 4 the timeline, 5 account data, 6 presence, 7 ephemeral, 8 the store
\* write; 0 outside the fold of a room
Phase(p) ==
    CASE p \in {"state", "state_apply"} -> 1
      [] p \in {"tracked", "summary"} -> 2
      [] p = "emit_state" -> 3
      [] p \in {"timeline", "timeline_apply", "timeline_emit"} -> 4
      [] p \in {"account_data", "account_data_emit"} -> 5
      [] p \in {"presence", "presence_emit"} -> 6
      [] p \in {"ephemeral", "ephemeral_emit"} -> 7
      [] p = "store_room" -> 8
      [] OTHER -> 0

\* C23: order inside the fold of one joined room.  The state events are
\* applied in server order, all of them before the first state callback;
\* the state callbacks run in server order, all of them before the first
\* timeline event; each timeline event is applied and then emitted before
\* the next one is taken; and the timeline comes before the room's account
\* data, presence and ephemeral events.
C23_OrderInJoinedRoom ==
    [][sec = "joined"
          => /\ (Phase(Position) # 0 /\ Phase(Position') # 0)
                   => Phase(Position') >= Phase(Position)
             /\ pc = "state_apply"
                   => /\ event = events[Len(events)]
                      /\ joined_rooms'[room_id] = RoomReceiveStateEvent(joined_rooms[room_id], event)
             /\ Len(events') > Len(events)
                   => /\ pc = "state"
                      /\ events' = Append(events, events'[Len(events')])
                      /\ event = NoEvent
             /\ (out'.op = "callback" /\ out # out'
                   /\ out'.name \in {"on_state_member"})
                   => /\ pc = "emit_state"
                      /\ out'.event = events[idx]
                      /\ idx' = idx + 1
             /\ (pc = "emit_state" /\ idx' # idx /\ pc' # "timeline")
                   => idx' = idx + 1
             /\ (pc = "timeline" /\ idx' = idx + 1)
                   => event = NoEvent
             /\ pc = "timeline_apply"
                   => /\ pc' = "timeline_emit"
                      /\ event # NoEvent
                      /\ UNCHANGED idx
             /\ pc = "timeline_emit"
                   => /\ Position' = "timeline"
                      /\ event' = NoEvent
                      /\ UNCHANGED <<idx, rooms_vars>>
             /\ (out'.op = "callback" /\ out # out'
                   /\ out'.name \in {"on_room_member", "on_room_message"})
                   => /\ pc = "timeline_emit"
                      /\ out'.event = event]_vars

\* the second timeline event of a joined room, a membership of u1, has been
\* applied and is about to be emitted to the subscriber; the room's state
\* events (one of them m.room.encryption) and its first timeline event are
\* done
C23_Witness ==
    /\ pc = "timeline_emit"
    /\ sec = "joined"
    /\ idx = 2
    /\ events = << >>
    /\ event = Member("u1")
    /\ event_emitter # None
    /\ joined_rooms["r1"].members = {"u1"}
    /\ joined_rooms["r1"].encrypted


\* C24: the decrypted event is the one applied.  For an encrypted timeline
\* event of a joined room that the engine decrypts, the Room receives the
\* decrypted event, the same event that is then emitted.
C24_DecryptedEventApplied ==
    [][(pc = "timeline_apply" /\ sec = "joined" /\ decrypted_event # NoEvent)
          => /\ joined_rooms'[room_id] =
                   RoomReceiveTimelineEvent(joined_rooms[room_id], decrypted_event)
             /\ event' = decrypted_event]_vars


\* C25: the persistence gate is per room.  The flag that gates a room's
\* store_room_state is clear when the fold of that room starts, so that it
\* says whether an event of this room reported a change, and the room is
\* written to the store exactly when the flag is set at the end of its fold.
C25_PerRoomPersistenceGate ==
    [][/\ (pc = "rooms" /\ pc' = "state") => ~updated'
       /\ pc = "store_room"
             => (out'.name = "store_room_state" <=> (updated /\ state_store))]_vars

\* C26: handling an m.push_rules event always replaces push_ruleset with the
\* event's global ruleset and always reports a change, also when the incoming
\* ruleset equals the cached one
C26_PushRulesAlwaysChanged ==
    [][\A e \in DirectAccountData :
          (ReceiveAccountDataEvent(e) /\ e.type = "m.push_rules")
              => (push_ruleset' = e.global /\ result' = "true")]_vars

\* a push-rules event carrying the ruleset already cached was handled and
\* reported as a change
C26_Witness ==
    /\ out.name = "receive_account_data_event"
    /\ out.event = PushRules("rs2")
    /\ out.cached = "rs2"
    /\ push_ruleset = "rs2"
    /\ result = "true"

\* C27: in no operation does a task hold the crypto engine mutex together
\* with a write lock on a Room; the mutex is only combined with a Room read
\* lock
C27_MutexNeverWithRoomWrite ==
    \A m, l \in peak :
        ~(m.lock = "olm" /\ l.lock = "room" /\ l.mode = "write")

\* the sets of locks one task holds together: at the peak of its last step,
\* and across a callback it awaits (its own and the callback's)
HeldTogether == {peak, held \cup cb_held}

\* C28: at no point of an operation does one task hold locks on two room maps
\* at once, nor a room-map lock while it acquires or holds a Room lock
C28_BucketThenRoom ==
    \A H \in HeldTogether : \A a, b \in H :
        /\ (a.lock = "rooms" /\ b.lock = "rooms") => a.bucket = b.bucket
        /\ ~(a.lock = "rooms" /\ b.lock = "room")

\* store_room_state looked a joined Room up and read-locked it for the store
C28_Witness ==
    /\ out.op = "flush"
    /\ out.writes = <<"joined">>
    /\ RoomLock("joined", "r1", "read") \in peak
    /\ result = "ok"

\* C29: while a joined room is folded with a crypto engine present,
\* update_tracked_users is called with the Room's current member ids exactly
\* when the Room is encrypted once the response's state events of the room
\* are applied; the call comes before any timeline event of the room, and is
\* made neither for a room that is not encrypted nor for an invited or left
\* room.
C29_TrackedUsers ==
    [][/\ (out'.name = "update_tracked_users" /\ out' # out)
          => /\ pc = "tracked"
             /\ sec = "joined"
             /\ encryption /\ IsSome(olm)
             /\ IsEncrypted(joined_rooms[room_id])
             /\ out'.room_id = room_id
             /\ out'.users = joined_rooms[room_id].members
       /\ (pc = "tracked" /\ encryption /\ IsSome(olm))
          => /\ out'.name = "update_tracked_users"
                   <=> IsEncrypted(joined_rooms[room_id])
             /\ \A i \in DOMAIN events :
                   /\ events[i].type = "m.room.encryption"
                         => IsEncrypted(joined_rooms[room_id])
                   /\ events[i].type = "m.room.member"
                         => events[i].user \in joined_rooms[room_id].members
             /\ pc' = "summary"
             /\ UNCHANGED rooms_vars
       /\ (sec = "joined" /\ Phase(Position') >= 3) => Phase(Position) >= 2
       /\ pc = "rooms" => Phase(Position') \in {0, 1}]_vars

\* the engine was told the members of a joined room that the response's own
\* state events made encrypted and gave the member u1
C29_Witness ==
    /\ pc = "summary"
    /\ sec = "joined"
    /\ out.name = "update_tracked_users"
    /\ out.users = {"u1"}
    /\ Len(events) = 2
    /\ RoomEncryption \in {events[i] : i \in DOMAIN events}
    /\ Member("u1") \in {events[i] : i \in DOMAIN events}
    /\ nfolds = 1

\* C30: cancel safety.  After a fold was abandoned at one of its suspension
\* points no lock is held and each room id is in at most one bucket.
C30_CancelSafe ==
    result = "cancelled"
        => /\ held = {} /\ cb_held = {} /\ peak = {}
           /\ \A r \in RoomIds : Cardinality(BucketsOf(r)) <= 1

\* C31: a fold that returns a store-write error has nevertheless folded every
\* room entry of the response into the buckets: each room of rooms.leave is in
\* left_rooms, each other room of rooms.invite in invited_rooms and each
\* remaining room of rooms.join in joined_rooms, so that no part of the
\* response is unapplied while sync_token equals its next_batch.
C31_ErrorAfterWholeFold ==
    [][(pc # "idle" /\ pc' = "idle" /\ result' = "err")
          => \A r \in RoomIds :
                /\ r \in resp.leave => r \in DOMAIN left_rooms'
                /\ r \in resp.invite \ resp.leave => r \in DOMAIN invited_rooms'
                /\ r \in resp.join \ (resp.invite \cup resp.leave)
                      => r \in DOMAIN joined_rooms']_vars

\* the key sets of the three room maps
KeySets == <<DOMAIN joined_rooms, DOMAIN invited_rooms, DOMAIN left_rooms>>

C33_ClientStateStoredOnce ==
    [][/\ out'.name = "store_client_state"
          => /\ pc = "rooms" /\ sec = "left" /\ todo = << >>
             /\ pc' = "idle"
             /\ state_store
             /\ out'.state = [sync_token |-> resp.next_batch,
                              ignored_users |-> ignored_users',
                              push_ruleset |-> push_ruleset']
             /\ UNCHANGED client_vars
       /\ (pc \notin {"idle", "aborted"} /\ pc' = "idle" /\ state_store
              /\ out'.name # "store_room_state")
          => out'.name = "store_client_state"]_vars

\* the second fold has stored a client state with the token t2, an ignored
\* list and a ruleset that its own account data brought
C33_Witness ==
    /\ pc = "idle"
    /\ nfolds = 2
    /\ out.name = "store_client_state"
    /\ result = "ok"
    /\ out.state.sync_token = "t2"
    /\ out.state.ignored_users = <<"u2", "u1">>
    /\ out.state.push_ruleset = "rs1"

\* C34: the state-store-synced flag is monotonic.  is_state_store_synced() is
\* false for a newly constructed client; only a sync_with_state_store call
\* that loaded the store makes it true; and once true it stays true after
\* every later operation (loads, logins, folds).
C34_SyncedMonotone ==
    /\ ~is_state_store_synced
    /\ [][/\ is_state_store_synced => is_state_store_synced'
          /\ (~is_state_store_synced /\ is_state_store_synced')
                => /\ out'.op = "load"
                   /\ out'.answer.rooms = "ok"
                   /\ result' = "true"]_vars

\* the flag is still set after a load, a later login and a later fold that
\* changed the joined rooms
C34_Witness ==
    /\ is_state_store_synced
    /\ pc = "idle"
    /\ nfolds = 2
    /\ out.name = "store_client_state"
    /\ result = "ok"
    /\ BucketsOf("r1") = {"joined"}
    /\ sync_token = "t2"

\* C35: a bucket transition carries no Room state over.  A get_or_create
\* helper that finds the room id absent from its own bucket inserts a newly
\* created, empty Room, whatever Room it has just evicted from another
\* bucket, and an evicted Room is gone from its map; a helper that finds the
\* id in its own bucket leaves that Room and the bucket as they are.
C35_NoCarryOver ==
    [][\A t \in Buckets, r \in RoomIds :
        /\ (pc = "get_or_create" /\ goc = << >> /\ pc' = ret
               /\ t = sec /\ r = room_id)
           => /\ r \notin DOMAIN Bucket(t)
                    => Bucket(t)' = MapInsert(Bucket(t), r,
                                              NewRoom(r, Unwrap(session).user_id))
              /\ r \in DOMAIN Bucket(t) => Bucket(t)' = Bucket(t)
              /\ \A b \in Buckets \ {t} : Bucket(b)' = Bucket(b)
        /\ (pc = "get_or_create" /\ goc # << >> /\ t = Head(goc) /\ r = room_id)
           => /\ t # sec
              /\ r \notin DOMAIN Bucket(t)'
              /\ \A x \in DOMAIN Bucket(t) \ {r} : Bucket(t)'[x] = Bucket(t)[x]
              /\ \A b \in Buckets \ {t} : Bucket(b)' = Bucket(b)]_vars

\* r1, a joined room with a member after the first fold, was listed as left
\* by the second response: the left helper has evicted it and inserted an
\* empty Room
C35_Witness ==
    /\ pc = "state_apply"
    /\ sec = "left"
    /\ nfolds = 2
    /\ resp.join = {} /\ resp.invite = {}
    /\ BucketsOf("r1") = {"left"}
    /\ left_rooms["r1"] = NewRoom("r1", "u1")

\* C36: presence handling.  receive_presence_event(room_id, e) changes a
\* Room only if room_id is a joined room, returns false otherwise and adds
\* no room to any bucket; in a fold every presence event of the response is
\* applied, in order, and handed to the subscriber once for each room of
\* rooms.join, and for no invited or left room.
C36_Presence ==
    [][/\ (pc = "idle" /\ out'.name = "receive_presence_event")
          => /\ KeySets' = KeySets
             /\ UNCHANGED <<invited_rooms, left_rooms>>
             /\ \A r \in DOMAIN joined_rooms \ {out'.room_id} :
                   joined_rooms'[r] = joined_rooms[r]
             /\ out'.room_id \notin DOMAIN joined_rooms
                   => (joined_rooms' = joined_rooms /\ result' = "false")
             /\ result' = "true" <=> joined_rooms' # joined_rooms
       /\ (Position \in {"presence", "presence_emit"}
              \/ Position' \in {"presence", "presence_emit"})
          => /\ sec = "joined"
             /\ room_id \in resp.join
       /\ (pc = "presence" /\ pc' = "presence_emit")
          => /\ idx \in DOMAIN resp.presence
             /\ idx' = idx + 1
             /\ event' = resp.presence[idx]
             /\ joined_rooms'[room_id] =
                   RoomReceivePresenceEvent(joined_rooms[room_id], resp.presence[idx])
             /\ KeySets' = KeySets
       /\ (Phase(Position) # 6 /\ pc' = "presence") => idx' = 1
       /\ (pc = "presence" /\ pc' # "presence_emit")
          => (idx = Len(resp.presence) + 1 /\ pc' = "ephemeral")
       /\ pc = "presence_emit"
          => /\ Position' = "presence"
             /\ UNCHANGED idx
             /\ event_emitter # None
                   => out' = Call("callback", "on_presence_event", "joined",
                                  room_id, event)
       /\ (out'.name = "on_presence_event" /\ out' # out)
          => pc = "presence_emit"
       /\ (sec = "joined" /\ Phase(Position') >= 7) => Phase(Position) >= 6]_vars

\* the presence of u1 has been applied to the joined room r1, of which u1 is
\* a member, and is being handed to the subscriber
C36_Witness ==
    /\ pc = "callback"
    /\ out.name = "on_presence_event"
    /\ out.event = Presence("u1")
    /\ out.room_id = "r1"
    /\ joined_rooms["r1"].presence = {"u1"}
    /\ idx = 2

----------------------------------------------------------------------------
(* Failure atomicity of sync_with_state_store *)

\* C37: a sync_with_state_store that returns an error leaves sync_token,
\* ignored_users, push_ruleset, the three room maps and the synced flag as
\* they were before the call.
C37_LoadErrorAtomic ==
    [][(pc = "idle" /\ out'.op = "load" /\ result' = "err")
          => UNCHANGED <<data_vars, rooms_vars, needs_state_store_sync>>]_vars

----------------------------------------------------------------------------
(* Termination of a fold *)

====
